---- MODULE Spec2Model ----
(***************************************************************************)
(* Render-job servers of ffmpeg-video-api.                                 *)
(*                                                                         *)
(* The repository holds several revisions of the same server.  Four of     *)
(* them are modelled; `variant` says which one the process is running:     *)
(*   "full"   src/unnamed/part_002        multi-image, CTA, TTL sweep      *)
(*   "gcp"    src/server.js lines 1-347   Google TTS only, TTL sweep       *)
(*   "basic"  src/unnamed/part_000        pipeline started inline          *)
(*   "legacy" src/server.js lines 934-1234 one job at a time, lazy timeout *)
(*                                                                         *)
(* A job pipeline is an async function: every `await` is a point where     *)
(* other callbacks run, so the pipeline is one action per awaited call.    *)
(* External calls (synthesis, download, ffmpeg, file system) either        *)
(* return or raise; the model draws that outcome nondeterministically.     *)
(***************************************************************************)
EXTENDS Integers, Sequences, FiniteSets, TLC

VARIABLES variant, now, nextId, jobs, dirs, procs, resp, sweep, render, video,
          speech, upload, zoom

vars == <<variant, now, nextId, jobs, dirs, procs, resp, sweep, render, video,
          speech, upload, zoom>>

(* ------------------------------ bounds --------------------------------- *)

\* submissions that reach uid() in one run of the lifecycle specification
MaxJobs == 2
\* longest segment list of a plan in the pipeline specification
MaxSegs == 2
\* clock ticks of one run
MaxTicks == 2

\* one clock tick, in milliseconds
TickMs == 60 * 60 * 1000
\* Date.now() when the process starts (positive, as createdAt is tested for truth)
Epoch == TickMs

(* ------------------------- program constants --------------------------- *)

JOB_TTL_MS == 2 * 60 * 60 * 1000
MAX_JOB_MS == 45 * 60 * 1000
\* the sanity floor of the verify step, in seconds
MinVideoSec == 10

Variants == {"full", "gcp", "basic", "legacy"}

NoError == ""
NoPath == 0
NoStage == <<"none", 0>>

(* ------------------------------- plans --------------------------------- *)
(* A plan field that is text or a URL is modelled by whether it is        *)
(* present (truthy).  hasSegments says whether plan.segments is an array. *)

\* the text of an orderKey (s.ayah), cut at every "/"
PlainAyah == <<"7">>

\* "/../x" and "/../../../render10min_2/x"
Ayahs == {PlainAyah, <<"", "..", "x">>, <<"", "..", "..", "..", "render10min_2", "x">>}

SegmentsOver(ayahs) == [arabicAudioUrl : BOOLEAN, trText : BOOLEAN, ayah : ayahs]

Segment == SegmentsOver({PlainAyah})

SegLists(n) == UNION {[1..k -> Segment] : k \in 0..n}

PlansOver(segLists) ==
    {p \in [introText : BOOLEAN, surahAnnouncementText : BOOLEAN,
            bismillah : BOOLEAN, hasSegments : BOOLEAN,
            segments : segLists, outroText : BOOLEAN] :
        ~p.hasSegments => p.segments = <<>>}

AllPlans == PlansOver(SegLists(MaxSegs))

CompleteSeg == [arabicAudioUrl |-> TRUE, trText |-> TRUE, ayah |-> PlainAyah]

IntroOnly ==
    [introText |-> TRUE, surahAnnouncementText |-> FALSE, bismillah |-> FALSE,
     hasSegments |-> TRUE, segments |-> <<>>, outroText |-> FALSE]

OneSegment ==
    [introText |-> FALSE, surahAnnouncementText |-> FALSE, bismillah |-> FALSE,
     hasSegments |-> TRUE, segments |-> <<CompleteSeg>>, outroText |-> FALSE]

\* the plan of the lifecycle specification: the shortest plan the revision
\* v renders (part_002:505 refuses a plan without segments)
LifePlans(v) == {IF v = "full" THEN OneSegment ELSE IntroOnly}

\* plans of one complete segment whose orderKey is any text
FilePlans ==
    PlansOver({<<s>> : s \in {t \in SegmentsOver(Ayahs) :
                                 t.arabicAudioUrl /\ t.trText}})

PlanFields == {"missing", "unparseable", "json"}

(* --------------------------- pipeline steps ---------------------------- *)
(* A step is one awaited call of the pipeline, or a synchronous piece of  *)
(* code between two awaits that can raise or write ("throw", "checkWavs", *)
(* "writeListSync").  label is the stage label in force while the step    *)
(* runs, clip the clip it works on, push whether the clip is appended to  *)
(* the clip list when the step returns, arg whether the text or URL the   *)
(* step is given is present.                                              *)

NoClip == <<"", 0>>

Step(kind, label, clip, push, arg) ==
    [kind |-> kind, label |-> label, clip |-> clip, push |-> push, arg |-> arg]

Throw(label, msg) == Step("throw", label, <<msg, 0>>, FALSE, TRUE)

\* addTtsClip of part_002 and of server.js:250: synthesize raw, normalize, push
addTtsClip(label, clip, text) ==
    << Step("tts", label, clip, FALSE, text),
       Step("normalize", label, clip, TRUE, TRUE) >>

\* addMp3UrlClip: download, normalize, push
addMp3UrlClip(label, clip, url) ==
    << Step("download", label, clip, FALSE, url),
       Step("normalize", label, clip, TRUE, TRUE) >>

Opt(cond, steps) == IF cond THEN steps ELSE <<>>

RECURSIVE SegStepsFullSpokenFirst(_, _)
\* the segment loop with the two halves of a segment exchanged
SegStepsFullSpokenFirst(segs, i) ==
    IF i > Len(segs) THEN <<>>
    ELSE LET s == segs[i] IN
         Opt(s.arabicAudioUrl /\ s.trText,
             addTtsClip(<<"seg_tr", i>>, <<"ayah_tr", i>>, TRUE)
             \o addMp3UrlClip(<<"seg_ar", i>>, <<"ayah_ar", i>>, TRUE))
         \o SegStepsFullSpokenFirst(segs, i + 1)

RECURSIVE SegStepsFull(_, _)
\* part_002:559-568: a segment without URL or without text is passed over
SegStepsFull(segs, i) ==
    IF i > Len(segs) THEN <<>>
    ELSE LET s == segs[i] IN
         Opt(s.arabicAudioUrl /\ s.trText,
             addMp3UrlClip(<<"seg_ar", i>>, <<"ayah_ar", i>>, TRUE)
             \o addTtsClip(<<"seg_tr", i>>, <<"ayah_tr", i>>, TRUE))
         \o SegStepsFull(segs, i + 1)

\* part_002:503-597
StepsFull(plan) ==
  IF ~plan.hasSegments \/ plan.segments = <<>>
  THEN << Throw(<<"prepare", 0>>, "Plan.segments bos veya yok") >>
  ELSE
    << Step("mkdir", <<"prepare", 0>>, NoClip, FALSE, TRUE) >>
    \o Opt(plan.introText, addTtsClip(<<"tts_intro", 0>>, <<"intro", 0>>, TRUE))
    \o Opt(plan.surahAnnouncementText,
           addTtsClip(<<"tts_announce", 0>>, <<"announce", 0>>, TRUE))
    \o Opt(plan.bismillah,
           addMp3UrlClip(<<"bismillah", 0>>, <<"bismillah_ar", 0>>, TRUE))
    \o SegStepsFull(plan.segments, 1)
    \o Opt(plan.outroText, addTtsClip(<<"tts_outro", 0>>, <<"outro", 0>>, TRUE))
    \o << Step("checkWavs", <<"tts_outro", 0>>, NoClip, FALSE, TRUE),
          Step("writeList", <<"concat", 0>>, NoClip, FALSE, TRUE),
          Step("concat", <<"concat", 0>>, NoClip, FALSE, TRUE),
          Step("trim", <<"trim_silence", 0>>, NoClip, FALSE, TRUE),
          Step("encode", <<"encode_audio", 0>>, NoClip, FALSE, TRUE),
          Step("render", <<"render_mp4", 0>>, NoClip, FALSE, TRUE),
          Step("verify", <<"verify", 0>>, NoClip, FALSE, TRUE) >>

RECURSIVE SegStepsGcp(_, _)
\* server.js:270-276: every segment is processed, whatever it holds
SegStepsGcp(segs, i) ==
    IF i > Len(segs) THEN <<>>
    ELSE LET s == segs[i] IN
         addMp3UrlClip(<<"seg_ar", i>>, <<"ayah_ar", i>>, s.arabicAudioUrl)
         \o addTtsClip(<<"seg_tr", i>>, <<"ayah_tr", i>>, s.trText)
         \o SegStepsGcp(segs, i + 1)

\* server.js:243-295
StepsGcp(plan) ==
    << Step("mkdir", <<"prepare", 0>>, NoClip, FALSE, TRUE) >>
    \o Opt(plan.introText, addTtsClip(<<"tts_intro", 0>>, <<"intro", 0>>, TRUE))
    \o Opt(plan.surahAnnouncementText,
           addTtsClip(<<"tts_announce", 0>>, <<"announce", 0>>, TRUE))
    \o Opt(plan.bismillah,
           addMp3UrlClip(<<"bismillah", 0>>, <<"bismillah", 0>>, TRUE))
    \o (IF ~plan.hasSegments
        THEN << Throw(<<"bismillah", 0>>, "Cannot read properties of undefined") >>
        ELSE SegStepsGcp(plan.segments, 1)
             \o Opt(plan.outroText,
                    addTtsClip(<<"tts_outro", 0>>, <<"outro", 0>>, TRUE))
             \o << Step("writeList", <<"concat", 0>>, NoClip, FALSE, TRUE),
                   Step("concat", <<"concat", 0>>, NoClip, FALSE, TRUE),
                   Step("trim", <<"trim", 0>>, NoClip, FALSE, TRUE),
                   Step("encode", <<"trim", 0>>, NoClip, FALSE, TRUE),
                   Step("render", <<"render_mp4", 0>>, NoClip, FALSE, TRUE) >>)

RECURSIVE SegStepsBasic(_, _)
\* part_000:173-186: fetch, write the body, normalize, push; synthesize, push
SegStepsBasic(segs, i) ==
    IF i > Len(segs) THEN <<>>
    ELSE LET s == segs[i]
             lab == <<"segment", i>> IN
         << Step("fetch", lab, <<"ar", i>>, FALSE, s.arabicAudioUrl),
            Step("write", lab, <<"ar", i>>, FALSE, TRUE),
            Step("normalize", lab, <<"ar", i>>, TRUE, TRUE),
            Step("tts", lab, <<"tr", i>>, TRUE, s.trText) >>
         \o SegStepsBasic(segs, i + 1)

\* part_000:161-196
StepsBasic(plan) ==
    Opt(plan.introText,
        << Step("tts", <<"audio_prep", 0>>, <<"intro", 0>>, TRUE, TRUE) >>)
    \o (IF ~plan.hasSegments
        THEN << Throw(<<"audio_prep", 0>>, "Cannot read properties of undefined") >>
        ELSE SegStepsBasic(plan.segments, 1)
             \o << Step("writeList", <<"concat_audio", 0>>, NoClip, FALSE, TRUE),
                   Step("concat", <<"concat_audio", 0>>, NoClip, FALSE, TRUE),
                   Step("render", <<"rendering", 0>>, NoClip, FALSE, TRUE) >>)

RECURSIVE SegWorkLegacy(_, _)
\* server.js:1103-1107
SegWorkLegacy(segs, i) ==
    IF i > Len(segs) THEN <<>>
    ELSE LET s == segs[i] IN
         Opt(s.arabicAudioUrl,
             << Step("download", NoStage, <<"AR", i>>, TRUE, TRUE),
                Step("tts", NoStage, <<"TR", i>>, TRUE, s.trText) >>)
         \o SegWorkLegacy(segs, i + 1)

\* server.js:1079-1113: the work list, one entry per clip, in `order`
buildJobsFromPlan(plan) ==
    << Step("tts", NoStage, <<"TR_INTRO", 0>>, TRUE, plan.introText) >>
    \o Opt(plan.bismillah,
           << Step("download", NoStage, <<"AR_BISM", 0>>, TRUE, TRUE) >>)
    \o << Step("tts", NoStage, <<"TR_SURE", 0>>, TRUE, plan.surahAnnouncementText) >>
    \o SegWorkLegacy(plan.segments, 1)
    \o << Step("tts", NoStage, <<"TR_OUTRO", 0>>, TRUE, plan.outroText) >>

\* server.js:1120-1164: the work list, the manifest, the two ffmpeg runs
StepsLegacy(plan) ==
    buildJobsFromPlan(plan)
    \o << Step("writeListSync", NoStage, NoClip, FALSE, TRUE),
          Step("concat", NoStage, NoClip, FALSE, TRUE),
          Step("render", NoStage, NoClip, FALSE, TRUE) >>

Steps(v, plan) ==
    CASE v = "full" -> StepsFull(plan)
      [] v = "gcp" -> StepsGcp(plan)
      [] v = "basic" -> StepsBasic(plan)
      [] v = "legacy" -> StepsLegacy(plan)

(* ------------------------------- files --------------------------------- *)
(* A path is the sequence of its components.  path.join concatenates its   *)
(* arguments and normalises the result: "" and "." are dropped and ".."    *)
(* removes the component before it.                                        *)

RECURSIVE Normalize(_, _)
Normalize(parts, acc) ==
    IF parts = <<>> THEN acc
    ELSE LET c == Head(parts) IN
         Normalize(Tail(parts),
                   CASE c \in {"", "."} -> acc
                     [] c = ".." -> IF acc = <<>> THEN acc
                                    ELSE SubSeq(acc, 1, Len(acc) - 1)
                     [] OTHER -> Append(acc, c))

\* path.join(dir, rest)
Join(dir, rest) == Normalize(dir \o rest, <<>>)

\* the template `${prefix}${text}${suffix}`, text cut at every "/"
Affix(prefix, text, suffix) ==
    IF Len(text) = 1 THEN <<prefix \o text[1] \o suffix>>
    ELSE <<prefix \o text[1]>> \o SubSeq(text, 2, Len(text) - 1)
         \o <<text[Len(text)] \o suffix>>

RECURSIVE padStart(_, _)
\* t.padStart(w, "0")
padStart(t, w) == IF Len(t) >= w THEN t ELSE padStart("0" \o t, w)

\* the zero-padded counters of the file names (part_002:522, server.js:1082)
Pad(n, w) == padStart(ToString(n), w)

RECURSIVE TextLen(_)
\* the length of the text whose pieces between "/" are parts
TextLen(parts) ==
    IF parts = <<>> THEN 0
    ELSE Len(Head(parts)) + (IF Len(parts) > 1 THEN 1 ELSE 0) + TextLen(Tail(parts))

\* the job directory (part_002:641, server.js:317, part_000:215, server.js:1185)
JobDir(v, id) ==
    <<"tmp", CASE v = "full" -> "render10min_" \o ToString(id)
               [] v = "gcp" -> "render_" \o ToString(id)
               [] v = "basic" -> ToString(id)
               [] v = "legacy" -> "job-" \o ToString(id) \o "-XXXXXX">>

\* the name a clip gets in its file names
\* (part_002:563-566, server.js:273-275, part_000:176-183, server.js:1105-1106)
ClipName(v, plan, clip) ==
    LET i == clip[2]
        half == IF clip[1] \in {"ayah_ar", "ar", "AR"} THEN "ar" ELSE "tr"
    IN
    IF i = 0 THEN <<clip[1]>>
    ELSE CASE v = "full" -> Affix("ayah", plan.segments[i].ayah, "_" \o half)
           [] v = "gcp" -> <<"ayah" \o ToString(i - 1) \o "_" \o half>>
           [] v = "basic" -> <<half \o "_" \o ToString(i - 1)>>
           [] v = "legacy" ->
                LET a == plan.segments[i].ayah
                    padded == [a EXCEPT ![1] = padStart(@, Len(@) + 3 - TextLen(a))]
                IN Affix(clip[1] \o "_", padded, "")

\* the number in the name of the file step k writes: the value of idx++ in
\* addTtsClip and addMp3UrlClip (part_002:518-538, server.js:247-264), `order`
\* in buildJobsFromPlan (server.js:1081-1091), the loop variable i of
\* part_000:174-183; NoIndex for intro.wav of part_000:167
NoIndex == 0 - 1

ClipIndex(v, steps, k) ==
    CASE v \in {"full", "gcp"} ->
           2 * Cardinality({n \in 1..(k - 1) : steps[n].push})
           + (IF steps[k].push THEN 1 ELSE 0)
      [] v = "legacy" -> k
      [] OTHER -> IF steps[k].clip[2] = 0 THEN NoIndex ELSE steps[k].clip[2] - 1

\* the files step k of the pipeline of job id writes
\* (part_002:514-592, server.js:245-294, part_000:162-192, server.js:1120-1152)
StepFiles(v, id, plan, steps, k) ==
    LET s == steps[k]
        dir == JobDir(v, id)
        clips == dir \o <<"clips">>
        name == ClipName(v, plan, s.clip)
        idx == ClipIndex(v, steps, k)
        numbered(n, w, ext) == Affix(Pad(n, w) \o "_", name, ext)
        top(file) == {Join(dir, <<file>>)}
    IN
    CASE s.kind = "writeList" \/ s.kind = "writeListSync" -> top("list.txt")
      [] s.kind = "concat" ->
           top(IF v = "basic" THEN "final.wav"
               ELSE IF v = "legacy" THEN "all.mp3" ELSE "concat.wav")
      [] s.kind = "trim" -> top(IF v = "full" THEN "final_nosilence.wav" ELSE "final.wav")
      [] s.kind = "encode" -> top("audio.m4a")
      [] s.kind = "render" -> top("output.mp4")
      [] s.kind = "mkdir" -> {clips}
      [] s.kind \in {"tts", "download", "normalize", "write"} ->
          (CASE v \in {"full", "gcp"} ->
                  {Join(clips, numbered(idx, 3,
                          CASE s.kind = "tts" -> "_raw.wav"
                            [] s.kind = "download" -> ".mp3"
                            [] OTHER -> ".wav"))}
             [] v = "basic" ->
                  {Join(clips, Affix("", name,
                          IF s.kind = "write" THEN ".mp3" ELSE ".wav"))}
             [] v = "legacy" ->
                  {Join(dir, numbered(k, 4, ext)) :
                     ext \in IF s.kind = "tts" THEN {".wav", ".mp3"} ELSE {".mp3"}})
      [] OTHER -> {}

\* path lies inside the directory dir
Inside(path, dir) ==
    Len(path) > Len(dir) /\ SubSeq(path, 1, Len(dir)) = dir

(* ------------------------ registry and closures ------------------------ *)

\* the record jobs.set stores (part_002:655, server.js:328, part_000:228, server.js:1198)
NewJob(v, id, t) ==
    [status |-> "processing",
     stage |-> CASE v = "legacy" -> NoStage
                 [] v = "basic" -> <<"start", 0>>
                 [] OTHER -> <<"queued", 0>>,
     dir |-> id, outputPath |-> NoPath, error |-> NoError, createdAt |-> t]

\* the closure of one pipeline call: its arguments and its locals
NewProc(plan, bgCount) ==
    [plan |-> plan, bgCount |-> bgCount, state |-> "scheduled", pc |-> 0,
     wavs |-> <<>>, list |-> <<>>, listed |-> FALSE, clipsDir |-> FALSE,
     dur |-> 0, exc |-> "", replies |-> <<>>]

\* setStage (part_002:495, server.js:236) and the direct j.stage writes of part_000
setStage(v, js, id, stage) ==
    IF v = "legacy" \/ id \notin DOMAIN js THEN js
    ELSE [js EXCEPT ![id].stage = stage]

\* MarkDone without the reset of the error field
MarkDoneKeepsError(v, js, id) ==
    IF id \notin DOMAIN js THEN js
    ELSE [js EXCEPT ![id] =
            [@ EXCEPT !.status = "done", !.outputPath = id,
                      !.stage = CASE v = "legacy" -> @
                                  [] v = "basic" -> <<"completed", 0>>
                                  [] OTHER -> <<"done", 0>>]]

\* the last statements of the try block
\* (part_002:599-602, server.js:297-300, part_000:198-200, server.js:1166-1168)
MarkDone(v, js, id) ==
    IF id \notin DOMAIN js THEN js
    ELSE [js EXCEPT ![id] =
            [@ EXCEPT !.status = "done", !.outputPath = id,
                      !.error = IF v = "legacy" THEN NoError ELSE @,
                      !.stage = CASE v = "legacy" -> @
                                  [] v = "basic" -> <<"completed", 0>>
                                  [] OTHER -> <<"done", 0>>]]

\* a catch block that swallows the exception
MarkErrorSwallowed(v, js, id, msg) == js

\* MarkError recording a message of its own instead of the exception's
MarkErrorReworded(v, js, id, msg) ==
    IF id \notin DOMAIN js THEN js
    ELSE [js EXCEPT ![id] =
            [@ EXCEPT !.status = "error", !.error = "render failed",
                      !.stage = IF v \in {"full", "gcp"} THEN <<"error", 0>> ELSE @]]

\* the catch block
\* (part_002:603-610, server.js:301-304, part_000:201-204, server.js:1169-1172)
MarkError(v, js, id, msg) ==
    IF id \notin DOMAIN js THEN js
    ELSE [js EXCEPT ![id] =
            [@ EXCEPT !.status = "error", !.error = msg,
                      !.stage = IF v \in {"full", "gcp"} THEN <<"error", 0>> ELSE @]]

RECURSIVE RunSync(_, _)
\* runs the synchronous code from position p.pc up to the next await, the
\* end of the try block, or a throw
RunSync(steps, p) ==
    IF p.pc > Len(steps) THEN [p EXCEPT !.state = "returned"]
    ELSE LET s == steps[p.pc] IN
         CASE s.kind = "throw" ->
                [p EXCEPT !.state = "returned", !.exc = s.clip[1]]
           [] s.kind = "checkWavs" ->
                IF p.wavs = <<>>
                THEN [p EXCEPT !.state = "returned",
                               !.exc = "Hic audio clip uretilmedi"]
                ELSE RunSync(steps, [p EXCEPT !.pc = @ + 1])
           [] s.kind = "writeListSync" ->
                RunSync(steps, [p EXCEPT !.pc = @ + 1, !.list = p.wavs,
                                         !.listed = TRUE])
           [] OTHER -> [p EXCEPT !.state = "running"]

\* the closure once the async function has returned: its locals are gone
Returned(p) == [p EXCEPT !.state = "returned", !.pc = 0, !.wavs = <<>>]

\* Settle putting a finished job back with jobs.set when the registry has lost it
SettleReinserts(v, js, id, p) ==
    CASE p.state = "running" ->
           [jobs |-> setStage(v, js, id, Steps(v, p.plan)[p.pc].label), proc |-> p]
      [] p.state = "returned" /\ p.exc # "" ->
           [jobs |-> MarkError(v, js, id, p.exc), proc |-> Returned(p)]
      [] p.state = "returned" /\ p.exc = "" ->
           IF id \notin DOMAIN js
           THEN [jobs |-> MarkDone(v, js @@ (id :> NewJob(v, id, 0)), id),
                 proc |-> Returned(p)]
           ELSE [jobs |-> MarkDone(v, js, id), proc |-> Returned(p)]

\* what the pipeline writes to the registry when it stops at an await,
\* falls off the try block, or lands in the catch block
Settle(v, js, id, p) ==
    CASE p.state = "running" ->
           [jobs |-> setStage(v, js, id, Steps(v, p.plan)[p.pc].label), proc |-> p]
      [] p.state = "returned" /\ p.exc # "" ->
           [jobs |-> MarkError(v, js, id, p.exc), proc |-> Returned(p)]
      [] p.state = "returned" /\ p.exc = "" ->
           IF v \in {"full", "gcp"} /\ id \notin DOMAIN js
           THEN \* jobs.get gives undefined: the assignment raises a TypeError
                [jobs |-> js,
                 proc |-> Returned([p EXCEPT !.exc = "Cannot set properties of undefined"])]
           ELSE [jobs |-> MarkDone(v, js, id), proc |-> Returned(p)]

\* the pipeline from its first statement to its first await
Launch(v, js, id, p) ==
    Settle(v, CASE v \in {"full", "gcp"} -> setStage(v, js, id, <<"prepare", 0>>)
                [] v = "basic" -> setStage(v, js, id, <<"audio_prep", 0>>)
                [] OTHER -> js,
           id, RunSync(Steps(v, p.plan), [p EXCEPT !.pc = 1]))

(* ----------------------- outcomes of awaited calls --------------------- *)

ProbeDurs == {9, 10}

Raises(kind) ==
    CASE kind = "tts" -> {"TTS request failed"}
      [] kind = "fetch" -> {"fetch failed"}
      [] kind \in {"mkdir", "write", "writeList"} -> {"ENOSPC: no space left on device"}
      [] kind = "verify" -> {"ffprobe failed (code=1)"}
      [] OTHER -> {"ffmpeg failed (code=1)"}

\* the end of a call: the exception it raised ("" when it returned), the
\* duration it measured, and the replies its backend had for its requests
Out(exc, dur) == [exc |-> exc, dur |-> dur, replies |-> <<>>]

\* what a backend answers to the successive requests of one call: the HTTP
\* status of the first request, of the second, and so on
PlainReplies == {<<200>>, <<500>>}

RetryReplies == PlainReplies \cup {<<429, 200>>, <<429, 429, 429, 200>>}

\* a synthesis backend that rejects the credentials (401), alone or beside a
\* second provider that accepts its own
AuthReplies == PlainReplies \cup {<<401>>, <<401, 200>>}

\* the status of the k-th request (a backend goes on answering as it did last)
ReplyAt(rs, k) == IF k <= Len(rs) THEN rs[k] ELSE rs[Len(rs)]

\* the calls that talk to a backend over the network: downloadToFile, fetch,
\* and speech synthesis (espeak-ng of server.js:1015 is a local process)
Http(v, kind) == kind \in {"download", "fetch"} \/ (kind = "tts" /\ v # "legacy")

\* one call of step s against a backend that answers rs; openai is whether the
\* second synthesis provider is configured (part_002:263)
Call(v, s, rs, openai) ==
    LET ok == [exc |-> "", dur |-> 0, replies |-> rs]
        failed(msg) == [exc |-> msg, dur |-> 0, replies |-> rs]
    IN
    CASE s.kind = "download" ->
           \* one fetch, then `if (!res.ok) throw` (part_002:112-117,
           \* server.js:73-78, server.js:1003-1013)
           IF rs[1] = 200 THEN ok
           ELSE failed("Download failed " \o ToString(rs[1]))
      [] s.kind = "fetch" ->
           \* part_000:177-178: the status of the response is not looked at
           ok
      [] s.kind = "tts" ->
           \* one synthesizeSpeech request; part_002:262-279 then asks the
           \* second provider once, when there is one
           IF rs[1] = 200 THEN ok
           ELSE IF v = "full" /\ openai /\ ReplyAt(rs, 2) = 200 THEN ok
           ELSE failed("TTS request failed")

\* the ways the awaited call of step s can end for closure p
Outcomes(v, s, p, R) ==
    CASE s.kind \in {"download", "fetch"} /\ ~s.arg ->
           {Out("Failed to parse URL", 0)}
      [] Http(v, s.kind) /\ (s.kind = "tts" \/ s.arg) ->
           {Call(v, s, rs, openai) : rs \in R, openai \in BOOLEAN}
           \cup (IF s.kind = "fetch" THEN {Out(m, 0) : m \in Raises(s.kind)} ELSE {})
      [] s.kind = "write" /\ ~p.clipsDir ->
           {Out("ENOENT: no such file or directory", 0)}
      [] s.kind = "render" /\ p.bgCount = 0 ->
           {Out("ffmpeg failed (code=1)", 0)}
      [] s.kind = "verify" ->
           {Out(m, 0) : m \in Raises(s.kind)} \cup {Out("", d) : d \in ProbeDurs}
      [] OTHER ->
           {Out(m, 0) : m \in Raises(s.kind)} \cup {Out("", 0)}

\* the closure p of a pipeline of steps `steps` after the awaited call of
\* its current step ended with `out`, run on to its next await
Resume(steps, p, out) ==
    LET s == steps[p.pc]
        short == s.kind = "verify" /\ out.dur < MinVideoSec
    IN  IF out.exc # ""
        THEN [p EXCEPT !.state = "returned", !.exc = out.exc,
                       !.replies = out.replies]
        ELSE IF short
        THEN [p EXCEPT !.state = "returned", !.dur = out.dur,
                       !.exc = "Video duration too short"]
        ELSE RunSync(steps,
               [p EXCEPT !.pc = @ + 1,
                         !.replies = out.replies,
                         !.wavs = IF s.push THEN Append(@, s.clip) ELSE @,
                         !.list = IF s.kind = "writeList" THEN p.wavs ELSE @,
                         !.listed = @ \/ s.kind = "writeList",
                         !.clipsDir = @ \/ s.kind \in {"mkdir", "tts", "download"},
                         !.dur = IF s.kind = "verify" THEN out.dur ELSE @])

(* ------------------------------ responses ------------------------------ *)
(* resp is the HTTP exchange the step just taken completed, NoResp when   *)
(* the step was no request handler: the request (op, id, and for a        *)
(* submission whether it carried an image and what its plan field held)   *)
(* and the response (code, and the status and error of its body).         *)

NoResp ==
    [op |-> "none", id |-> 0, image |-> FALSE, field |-> "missing",
     code |-> 0, status |-> "", error |-> ""]

StartResp(image, field, code, id, status, error) ==
    [op |-> "start", id |-> id, image |-> image, field |-> field,
     code |-> code, status |-> status, error |-> error]

QueryResp(op, id, code, status, error) ==
    [op |-> op, id |-> id, image |-> FALSE, field |-> "missing",
     code |-> code, status |-> status, error |-> error]

\* the TTL sweep: the Date.now() it read and the job whose directory it is
\* removing (0 when no sweep is under way)
SweepIdle == [now |-> 0, id |-> 0]

\* the single-shot renders: the requests POST /render accepted (shots) and
\* the files of the process's working directory that they write (files: the
\* requests whose encoder wrote what the file holds)
NoRender == [shots |-> <<>>, files |-> <<>>]

\* the composition of the video: no call of imagesPlusAudioToMp4 yet
NoVideo == [phase |-> "idle"]

\* no zoompan filter built yet
NoZoom == [phase |-> "idle"]

\* a request whose parts are still arriving
NoUpload == [phase |-> "receiving", files |-> <<>>, bgPaths |-> <<>>]

\* no speech synthesis under way
NoSpeech == [phase |-> "idle"]

(* ------------------------------- Init ---------------------------------- *)

Init ==
    /\ variant \in Variants
    /\ now = Epoch
    /\ nextId = 1
    /\ jobs = <<>>
    /\ dirs = {}
    /\ procs = <<>>
    /\ resp = NoResp
    /\ sweep = SweepIdle
    /\ render = NoRender
    /\ video = NoVideo
    /\ speech = NoSpeech
    /\ upload = NoUpload
    /\ zoom = NoZoom

(* ----------------------------- submission ------------------------------ *)

\* a submission refused before any job id is drawn
Refuse(image, field, code, error) ==
    /\ resp' = StartResp(image, field, code, 0, "", error)
    /\ UNCHANGED <<zoom, upload, speech, video, render, variant, now, nextId, jobs, dirs, procs, sweep>>

\* a submission answered with an error after its directory was made and
\* before jobs.set: the directory stays
FailAfterMkdir(image, field, code, error) ==
    /\ nextId' = nextId + 1
    /\ dirs' = dirs \cup {nextId}
    /\ resp' = StartResp(image, field, code, 0, "", error)
    /\ UNCHANGED <<zoom, upload, speech, video, render, variant, now, jobs, procs, sweep>>

\* jobs.set and setImmediate, then the acknowledgment
Accept(image, plan, status) ==
    /\ nextId' = nextId + 1
    /\ dirs' = dirs \cup {nextId}
    /\ jobs' = jobs @@ (nextId :> NewJob(variant, nextId, now))
    /\ procs' = procs @@ (nextId :> NewProc(plan, IF image THEN 1 ELSE 0))
    /\ resp' = StartResp(image, "json", 200, nextId, status, "")
    /\ UNCHANGED <<zoom, upload, speech, video, render, variant, now, sweep>>

\* FailedCreation recording the message without the status
FailedCreationStillProcessing(image, field, msg) ==
    /\ nextId' = nextId + 1
    /\ dirs' = dirs \cup {nextId}
    /\ jobs' = jobs @@ (nextId :> [NewJob(variant, nextId, now) EXCEPT !.error = msg])
    /\ resp' = StartResp(image, field, 500, 0, "", "server error")
    /\ UNCHANGED <<zoom, upload, speech, video, render, variant, now, procs, sweep>>

\* server.js:1204-1207: the catch block records the job as failed
FailedCreation(image, field, msg) ==
    /\ nextId' = nextId + 1
    /\ dirs' = dirs \cup {nextId}
    /\ jobs' = jobs @@ (nextId :>
           [NewJob(variant, nextId, now) EXCEPT !.status = "error", !.error = msg])
    /\ resp' = StartResp(image, field, 500, 0, "", "server error")
    /\ UNCHANGED <<zoom, upload, speech, video, render, variant, now, procs, sweep>>

\* StartFull with the one-job-at-a-time gate of server.js:1180
StartFullOneAtATime(P, K) ==
    /\ variant = "full"
    /\ \E image \in BOOLEAN, field \in PlanFields :
         CASE \E id \in DOMAIN jobs : jobs[id].status = "processing" ->
                Refuse(image, field, 429, "A job is already processing")
           [] OTHER ->
                CASE ~image -> Refuse(image, field, 400, "Missing required files")
                  [] image /\ field = "missing" ->
                       Refuse(image, field, 400, "Missing plan field")
                  [] image /\ field = "unparseable" ->
                       Refuse(image, field, 400, "Plan JSON parse error")
                  [] OTHER ->
                       /\ nextId <= K
                       /\ \/ FailAfterMkdir(image, field, 500, "ENOSPC: no space left on device")
                          \/ \E plan \in P : Accept(image, plan, "")

\* POST /render10min/start, part_002:617-672
StartFull(P, K) ==
    /\ variant = "full"
    /\ \E image \in BOOLEAN, field \in PlanFields :
         CASE ~image -> Refuse(image, field, 400, "Missing required files")
           [] image /\ field = "missing" ->
                Refuse(image, field, 400, "Missing plan field")
           [] image /\ field = "unparseable" ->
                Refuse(image, field, 400, "Plan JSON parse error")
           [] OTHER ->
                /\ nextId <= K
                /\ \/ FailAfterMkdir(image, field, 500, "ENOSPC: no space left on device")
                   \/ \E plan \in P : Accept(image, plan, "")

\* POST /render10min/start, server.js:309-333
StartGcp(P, K) ==
    /\ variant = "gcp"
    /\ \E image \in BOOLEAN, field \in PlanFields :
         CASE ~image \/ field = "missing" ->
                Refuse(image, field, 400, "Missing files or plan")
           [] image /\ field = "unparseable" ->
                Refuse(image, field, 500, "Unexpected token in JSON")
           [] OTHER ->
                /\ nextId <= K
                /\ \/ FailAfterMkdir(image, field, 500, "ENOSPC: no space left on device")
                   \/ \E plan \in P : Accept(image, plan, "")

\* POST /render10min/start, part_000:211-233: processJob is called, not
\* scheduled, so it runs to its first await before the response is sent
StartBasic(P, K) ==
    /\ variant = "basic"
    /\ \E image \in BOOLEAN, field \in PlanFields :
         IF field # "json"
         THEN Refuse(image, field, 500, "Unexpected token in JSON")
         ELSE /\ nextId <= K
              /\ \/ FailAfterMkdir(image, field, 500, "ENOSPC: no space left on device")
                 \/ \E plan \in P :
                      LET id == nextId
                          js == jobs @@ (id :> NewJob(variant, id, now))
                          r == Launch(variant, js, id,
                                      NewProc(plan, IF image THEN 1 ELSE 0))
                      IN  /\ nextId' = nextId + 1
                          /\ dirs' = dirs \cup {id}
                          /\ jobs' = r.jobs
                          /\ procs' = procs @@ (id :> r.proc)
                          /\ resp' = StartResp(image, field, 200, id, "", "")
                          /\ UNCHANGED <<zoom, upload, speech, video, render, variant, now, sweep>>

\* POST /render10min/start, server.js:1178-1208
StartLegacy(P, K) ==
    /\ variant = "legacy"
    /\ \E image \in BOOLEAN, field \in PlanFields :
         IF \E id \in DOMAIN jobs : jobs[id].status = "processing"
         THEN Refuse(image, field, 429, "A job is already processing")
         ELSE /\ nextId <= K
              /\ CASE ~image -> FailAfterMkdir(image, field, 400, "Missing image")
                   [] image /\ field = "missing" ->
                        FailAfterMkdir(image, field, 400, "Missing plan field")
                   [] image /\ field = "unparseable" ->
                        FailedCreation(image, field, "Unexpected token in JSON")
                   [] OTHER ->
                        \/ FailedCreation(image, field, "ENOENT: rename")
                        \/ \E plan \in P : Accept(image, plan, "processing")

\* the setImmediate callback of job id: processJob / runRender10MinJob up to
\* its first await
Begin(id) ==
    /\ id \in DOMAIN procs
    /\ procs[id].state = "scheduled"
    /\ \E r \in {Launch(variant, jobs, id, procs[id])} :
         /\ jobs' = r.jobs
         /\ procs' = [procs EXCEPT ![id] = r.proc]
    /\ resp' = NoResp
    /\ UNCHANGED <<zoom, upload, speech, video, render, variant, now, nextId, dirs, sweep>>

BeginJob == \E id \in DOMAIN procs : Begin(id)

\* the awaited call of job id's running pipeline returns or raises, and the
\* pipeline runs on to its next await, to its end, or into its catch block;
\* R is what the backends of the network calls may answer
Await(id, R) ==
    /\ id \in DOMAIN procs
    /\ procs[id].state = "running"
    /\ \E p \in {procs[id]}, steps \in {Steps(variant, procs[id].plan)} :
         \E out \in Outcomes(variant, steps[p.pc], p, R) :
           \E q \in {Resume(steps, p, out)} :
             \E r \in {Settle(variant, jobs, id, q)} :
               /\ jobs' = r.jobs
               /\ procs' = [procs EXCEPT ![id] = r.proc]
    /\ resp' = NoResp
    /\ UNCHANGED <<zoom, upload, speech, video, render, variant, now, nextId, dirs, sweep>>

Advance(id) == Await(id, PlainReplies)

StepDone == \E id \in DOMAIN procs : Advance(id)

\* StepDone with backends that may be rate-limited
StepDoneLimited == \E id \in DOMAIN procs : Await(id, RetryReplies)

\* StepDone with a synthesis backend that may reject the credentials
StepDoneDenied == \E id \in DOMAIN procs : Await(id, AuthReplies)

(* ------------------------------- queries ------------------------------- *)

\* Status, but an unknown id is answered like a job that is still running
StatusUnknownAsProcessing(K) ==
    \E id \in 1..K :
      /\ IF id \notin DOMAIN jobs
         THEN /\ resp' = QueryResp("status", id, 200, "processing", "")
              /\ jobs' = jobs
         ELSE LET overdue == /\ variant = "legacy"
                             /\ jobs[id].status = "processing"
                             /\ now - jobs[id].createdAt > MAX_JOB_MS
                  j == IF overdue
                       THEN [jobs[id] EXCEPT !.status = "error", !.error = "timeout"]
                       ELSE jobs[id]
              IN  /\ jobs' = [jobs EXCEPT ![id] = j]
                  /\ resp' = QueryResp("status", id, 200, j.status,
                               CASE variant = "full" /\ j.status = "error" ->
                                      IF j.error = NoError THEN "unknown" ELSE j.error
                                 [] variant = "full" /\ j.status # "error" -> ""
                                 [] OTHER -> j.error)
      /\ UNCHANGED <<zoom, upload, speech, video, render, variant, now, nextId, dirs, procs, sweep>>

\* Status with a ceiling that does not look at the age of the job
StatusTimesOutAnyAge(K) ==
    \E id \in 1..K :
      /\ IF id \notin DOMAIN jobs
         THEN /\ resp' = QueryResp("status", id, 404,
                            IF variant = "full" THEN "error" ELSE "",
                            "job_not_found")
              /\ jobs' = jobs
         ELSE LET overdue == /\ variant = "legacy"
                             /\ jobs[id].status = "processing"
                  j == IF overdue
                       THEN [jobs[id] EXCEPT !.status = "error", !.error = "timeout"]
                       ELSE jobs[id]
              IN  /\ jobs' = [jobs EXCEPT ![id] = j]
                  /\ resp' = QueryResp("status", id, 200, j.status,
                               CASE variant = "full" /\ j.status = "error" ->
                                      IF j.error = NoError THEN "unknown" ELSE j.error
                                 [] variant = "full" /\ j.status # "error" -> ""
                                 [] OTHER -> j.error)
      /\ UNCHANGED <<zoom, upload, speech, video, render, variant, now, nextId, dirs, procs, sweep>>

\* GET /render10min/status/:jobId
\* (part_002:675-685, server.js:335-339, part_000:236-240, server.js:1210-1220)
Status(K) ==
    \E id \in 1..K :
      /\ IF id \notin DOMAIN jobs
         THEN /\ resp' = QueryResp("status", id, 404,
                            IF variant = "full" THEN "error" ELSE "",
                            "job_not_found")
              /\ jobs' = jobs
         ELSE LET overdue == /\ variant = "legacy"
                             /\ jobs[id].status = "processing"
                             /\ now - jobs[id].createdAt > MAX_JOB_MS
                  j == IF overdue
                       THEN [jobs[id] EXCEPT !.status = "error", !.error = "timeout"]
                       ELSE jobs[id]
              IN  /\ jobs' = [jobs EXCEPT ![id] = j]
                  /\ resp' = QueryResp("status", id, 200, j.status,
                               CASE variant = "full" /\ j.status = "error" ->
                                      IF j.error = NoError THEN "unknown" ELSE j.error
                                 [] variant = "full" /\ j.status # "error" -> ""
                                 [] OTHER -> j.error)
      /\ UNCHANGED <<zoom, upload, speech, video, render, variant, now, nextId, dirs, procs, sweep>>

Without(f, id) == [i \in DOMAIN f \ {id} |-> f[i]]

\* GET /render10min/result/:jobId
\* (part_002:688-701, server.js:341-345, part_000:242-246, server.js:1222-1232)
Result(K) ==
    \E id \in 1..K :
      LET known == id \in DOMAIN jobs
          j == jobs[id]
          ready == known /\ j.status = "done" /\ j.outputPath # NoPath
          onDisk == ready /\ j.outputPath \in dirs
      IN
      CASE variant = "full" ->
             /\ resp' = CASE ~known -> QueryResp("result", id, 404, "", "job_not_found")
                          [] known /\ ~ready ->
                               QueryResp("result", id, 409, j.status, "job_not_done")
                          [] ready /\ ~onDisk -> QueryResp("result", id, 500, "", "ENOENT")
                          [] OTHER -> QueryResp("result", id, 200, "", "")
             /\ UNCHANGED <<zoom, upload, speech, video, render, variant, now, nextId, jobs, dirs, procs, sweep>>
        [] variant \in {"gcp", "basic"} ->
             /\ resp' = CASE ~(known /\ j.status = "done") ->
                               QueryResp("result", id, 404, "", "not_ready")
                          [] known /\ j.status = "done" /\ ~onDisk ->
                               QueryResp("result", id, 404, "", "ENOENT")
                          [] OTHER -> QueryResp("result", id, 200, "", "")
             /\ UNCHANGED <<zoom, upload, speech, video, render, variant, now, nextId, jobs, dirs, procs, sweep>>
        [] variant = "legacy" ->
             CASE ~known ->
                    /\ resp' = QueryResp("result", id, 404, "", "job not found")
                    /\ UNCHANGED <<zoom, upload, speech, video, render, variant, now, nextId, jobs, dirs, procs, sweep>>
               [] known /\ j.status = "error" ->
                    /\ resp' = QueryResp("result", id, 500, "",
                                 IF j.error = NoError THEN "job failed" ELSE j.error)
                    /\ UNCHANGED <<zoom, upload, speech, video, render, variant, now, nextId, jobs, dirs, procs, sweep>>
               [] known /\ j.status # "error" /\ ~ready ->
                    /\ resp' = QueryResp("result", id, 425, "", "not ready")
                    /\ UNCHANGED <<zoom, upload, speech, video, render, variant, now, nextId, jobs, dirs, procs, sweep>>
               [] OTHER ->
                    \* res.download: its callback runs when the transfer ended,
                    \* successfully or not, and removes directory and record
                    /\ \E sent \in BOOLEAN :
                         resp' = QueryResp("result", id, IF sent THEN 200 ELSE 499,
                                           "", IF sent THEN "" ELSE "aborted")
                    /\ dirs' = dirs \ {j.dir}
                    /\ jobs' = Without(jobs, id)
                    /\ UNCHANGED <<zoom, upload, speech, video, render, variant, now, nextId, procs, sweep>>

(* -------------------------- single-shot render ------------------------- *)

\* longest run of accepted POST /render requests
MaxShots == 3

\* server.js:1044-1046: the locals of one accepted request; got is what the
\* download stream has read, opened whether it found the file
NewShot == [state |-> "encoding", output |-> "output.mp4", got |-> {}, opened |-> FALSE]

Encoding(shots, file) ==
    {q \in DOMAIN shots : shots[q].state = "encoding" /\ shots[q].output = file}

\* POST /render up to exec(cmd): ffmpeg -y opens its output file and cuts it to
\* nothing; encoders and download streams that have the file open go on
\* writing and reading it (server.js:1038-1060)
RenderStart(K) ==
    /\ variant = "legacy"
    /\ \E image, audio \in BOOLEAN :
         IF ~(image /\ audio)
         THEN /\ resp' = QueryResp("render", 0, 400, "", "Missing required files")
              /\ render' = render
         ELSE LET shots == render.shots
                  files == render.files
                  r == Len(shots) + 1
                  out == NewShot.output
              IN
              /\ r <= K
              /\ resp' = NoResp
              /\ render' =
                   [shots |->
                      Append([q \in DOMAIN shots |->
                                IF /\ shots[q].state = "sending" /\ shots[q].opened
                                   /\ shots[q].output = out
                                THEN [shots[q] EXCEPT !.got = @ \cup {r}]
                                ELSE shots[q]],
                             NewShot),
                    files |->
                      [f \in DOMAIN files \cup {out} |->
                         IF f = out THEN {r} \cup Encoding(shots, out) ELSE files[f]]]
    /\ UNCHANGED <<zoom, upload, speech, video, variant, now, nextId, jobs, dirs, procs, sweep>>

\* the callback of exec: 500 when ffmpeg failed, else res.download opens the
\* output file (server.js:1060-1064)
RenderEncoded(r) ==
    /\ r \in DOMAIN render.shots
    /\ render.shots[r].state = "encoding"
    /\ \E ok \in BOOLEAN :
         LET shot == render.shots[r]
             found == shot.output \in DOMAIN render.files
         IN
         IF ~ok
         THEN /\ resp' = QueryResp("render", r, 500, "", "ffmpeg failed")
              /\ render' = [render EXCEPT !.shots[r].state = "failed"]
         ELSE /\ resp' = NoResp
              /\ render' = [render EXCEPT
                              !.shots[r] =
                                 [shot EXCEPT !.state = "sending", !.opened = found,
                                              !.got = IF found
                                                      THEN render.files[shot.output]
                                                      ELSE {}]]
    /\ UNCHANGED <<zoom, upload, speech, video, variant, now, nextId, jobs, dirs, procs, sweep>>

\* the callback of res.download: the transfer ended, or the file could not be
\* opened and nothing was sent; the three files are unlinked (server.js:1064-1068)
RenderSent(r) ==
    /\ r \in DOMAIN render.shots
    /\ render.shots[r].state = "sending"
    /\ LET shot == render.shots[r] IN
         /\ resp' = IF shot.opened THEN QueryResp("render", r, 200, "", "") ELSE NoResp
         /\ render' = [shots |-> [render.shots EXCEPT
                                    ![r].state = IF shot.opened THEN "sent"
                                                 ELSE "unanswered"],
                       files |-> Without(render.files, shot.output)]
    /\ UNCHANGED <<zoom, upload, speech, video, variant, now, nextId, jobs, dirs, procs, sweep>>

(* ----------------------------- composition ----------------------------- *)
(* imagesPlusAudioToMp4 (part_002:347-491, server.js:172-232,              *)
(* part_000:106-154).  Times are counted in sixtieths of a second, so that *)
(* a whole number of seconds divides evenly among up to six images.        *)

\* one second
Sec == 60

\* part_002:388, 645: at most six background images are used
MaxImages == 6

\* the durations ffprobe reports for the finished audio track: half a
\* second, 8, 10, 12 and 60 seconds
AudioDurs == {Sec \div 2, 8 * Sec, 10 * Sec, 12 * Sec, 60 * Sec}

\* ctaStartDurationSec and ctaDurationSec of the plan, with their defaults
\* 4 and 6 (part_002:377-378)
CtaStarts == {2 * Sec, 4 * Sec}

CtaEnds == {3 * Sec, 6 * Sec}

Max(a, b) == IF a >= b THEN a ELSE b

Min(a, b) == IF a <= b THEN a ELSE b

\* what each looped image input gets beyond its share: "-t", segDur + 0.25
\* (part_002:392) or segDur + 0.5 (server.js:197, part_000:122)
Slack(v) == IF v = "full" THEN Sec \div 4 ELSE Sec \div 2

\* whether ffmpeg is given -shortest (part_002:488; not in server.js:228-229
\* nor in part_000:150-151)
Shortest(v) == v = "full"

\* the call up to the return of ffprobeDurationSec: n images, an overlay or
\* none, an audio track of dur; total = Math.max(1, dur)
\* (part_002:363-364, server.js:176-177, part_000:108-109)
ComposeProbe ==
    /\ variant \in {"full", "gcp", "basic"}
    /\ video.phase = "idle"
    /\ \E n \in 1..MaxImages, cta \in BOOLEAN, dur \in AudioDurs,
          start \in CtaStarts, end \in CtaEnds :
         /\ cta => variant # "basic"
         /\ (variant = "gcp" \/ ~cta) => (start = 4 * Sec /\ end = 6 * Sec)
         /\ video' = [phase |-> "probed", n |-> n, cta |-> cta, dur |-> dur,
                       start |-> start, end |-> end, total |-> Max(Sec, dur)]
    /\ resp' = NoResp
    /\ UNCHANGED <<zoom, upload, speech, render, variant, now, nextId, jobs, dirs, procs, sweep>>

\* the image track ffmpeg builds from inputs of the lengths ts, joined by
\* concat and cut at length out: the interval each image is displayed
RECURSIVE Slots(_, _, _)
Slots(ts, from, out) ==
    IF ts = <<>> THEN <<>>
    ELSE << <<Min(from, out), Min(from + Head(ts), out)>> >>
         \o Slots(Tail(ts), from + Head(ts), out)

RECURSIVE Sum(_)
Sum(ts) == IF ts = <<>> THEN 0 ELSE Head(ts) + Sum(Tail(ts))

\* the argument list and the run of ffmpeg: the inputs, the concat of the
\* image track, the overlay window, the mux with the audio track
\* (part_002:388-491, server.js:190-231, part_000:117-153)
ComposeEncode ==
    /\ video.phase = "probed"
    /\ LET segDur == video.total \div video.n
           inputs == [i \in 1..video.n |-> segDur + Slack(variant)]
           track == Sum(inputs)
           out == IF Shortest(variant) THEN Min(track, video.dur)
                  ELSE Max(track, video.dur)
           window == IF variant = "full"
                     THEN [startFrom |-> 0,
                           startTo |-> Min(video.total, video.start),
                           endFrom |-> Max(0, video.total - video.end),
                           endTo |-> video.total]
                     ELSE [startFrom |-> 0, startTo |-> 4 * Sec,
                           endFrom |-> video.total - 6 * Sec,
                           endTo |-> video.total]
       IN  video' = [phase |-> "encoded", n |-> video.n, cta |-> video.cta,
                     dur |-> video.dur, total |-> video.total,
                     slots |-> Slots(inputs, 0, out), track |-> track,
                     out |-> out,
                     window |-> window]
    /\ resp' = NoResp
    /\ UNCHANGED <<zoom, upload, speech, render, variant, now, nextId, jobs, dirs, procs, sweep>>

\* between(t,a,b)+between(t,c,d): the enable expression of the overlay
\* (part_002:436-437, server.js:223)
CtaEnabled(w, t) ==
    (w.startFrom <= t /\ t <= w.startTo) \/ (w.endFrom <= t /\ t <= w.endTo)

(* ------------------------------ zoom and pan --------------------------- *)

\* zoom factors and sines are in ten-thousandths: 1.005 is 10050
Unit == 10000

\* the least denominator of the phase in part_002:369
MinDenom == 60

\* W x H of the output (part_002:348-349, server.js:173-174, part_000:107)
Canvases == {<<1280, 720>>, <<1920, 1080>>, <<854, 480>>}

\* frame rates and zoom periods in seconds an override can set
FrameRates == {10, 30}

ZoomPeriods == {2, 10}

\* zoom base and amplitude: the defaults 1.005 and 0.004, and overrides
ZoomBases == {10050, 10000}

ZoomAmpls == {40, 200}

\* Math.round(n * pct / 100)
RoundPct(n, pct) == (n * pct + 50) \div 100

\* sin(2*PI*num/den) in ten-thousandths, by Bhaskara's rational formula
\* 16u(1-u) / (5 - 4u(1-u)) on each half turn u: exact where the sine is
\* 0, 1 or -1, and always within [-1, 1]
Sine(num, den) ==
    LET t == num % den
        \* n / d in ten-thousandths, two decimal places at a time
        ratio(n, d) == ((n * 100) \div d) * 100 + (((n * 100) % d) * 100) \div d
        half(a, b) == ratio(16 * a * (b - a), 5 * b * b - 4 * a * (b - a))
    IN  IF 2 * t < den THEN half(2 * t, den)
        ELSE 0 - half(2 * t - den, den)

\* cos(x) = sin(x + PI/2)
Cosine(num, den) == Sine(4 * num + den, 4 * den)

\* a product of two quantities in ten-thousandths, rounded towards zero
Times(a, b) == IF a * b >= 0 THEN (a * b) \div Unit ELSE 0 - ((0 - a * b) \div Unit)

\* the z expression of zoompan at output frame `on`
\* (part_002:413, server.js:205, part_000:129)
ZoomAt(v, c, on) ==
    IF v = "full"
    THEN Max(Unit, c.base + Times(c.ampl, Sine(on, c.denom)))
    ELSE c.zoomMin + Times(c.zoomMax - c.zoomMin,
                           (Unit - Cosine(on, c.denom)) \div 2)

\* the x and y expressions of zoompan for an input of size iw at zoom z
\* (part_002:414-415, server.js:206-207, part_000:130-131)
PanAt(v, iw, z) ==
    IF v = "full"
    THEN (iw * (z - Unit)) \div (2 * z)
    ELSE ((iw * (z - Unit)) \div (4 * z)) * 2

\* imagesPlusAudioToMp4 reads its overrides and builds the zoompan filter
ZoomSetup ==
    /\ variant \in {"full", "gcp", "basic"}
    /\ zoom.phase = "idle"
    /\ \E size \in Canvases, fps \in FrameRates, sec \in ZoomPeriods,
          base \in ZoomBases, ampl \in ZoomAmpls :
         /\ variant = "basic" => size = <<1280, 720>> /\ fps = 30
         /\ variant # "full" => sec = 10 /\ base = 10050 /\ ampl = 40
         /\ zoom' =
              CASE variant = "full" ->
                     [phase |-> "built", fps |-> fps, period |-> fps * sec,
                      denom |-> Max(MinDenom, fps * sec),
                      base |-> base, ampl |-> ampl,
                      zoomMin |-> Unit, zoomMax |-> Max(Unit, base + ampl),
                      iw |-> RoundPct(size[1], 112), ih |-> RoundPct(size[2], 112)]
                [] variant = "gcp" ->
                     [phase |-> "built", fps |-> fps, period |-> fps * 15,
                      denom |-> fps * 15, base |-> 0, ampl |-> 0,
                      zoomMin |-> Unit, zoomMax |-> 11000,
                      iw |-> RoundPct(size[1], 115), ih |-> RoundPct(size[2], 115)]
                [] OTHER ->
                     [phase |-> "built", fps |-> fps, period |-> fps * 15,
                      denom |-> fps * 15, base |-> 0, ampl |-> 0,
                      zoomMin |-> Unit, zoomMax |-> 11000,
                      iw |-> RoundPct(size[1], 110), ih |-> RoundPct(size[2], 110)]
    /\ UNCHANGED <<upload, speech, video, render, variant, now, nextId, jobs, dirs, procs, resp, sweep>>

\* zoompan evaluates its expressions for the next output frame; two periods
\* of frames are followed
ZoomFrame ==
    /\ zoom.phase \in {"built", "frame"}
    /\ \E on \in {IF zoom.phase = "built" THEN 0 ELSE zoom.on + 1} :
         /\ on <= 2 * zoom.period
         /\ \E z \in {ZoomAt(variant, zoom, on)} :
              zoom' = [on |-> on, z |-> z,
                       x |-> PanAt(variant, zoom.iw, z),
                       y |-> PanAt(variant, zoom.ih, z)]
                      @@ [zoom EXCEPT !.phase = "frame"]
    /\ UNCHANGED <<upload, speech, video, render, variant, now, nextId, jobs, dirs, procs, resp, sweep>>

(* ------------------------- background images -------------------------- *)

\* the file parts of one request
MaxParts == 7

\* field names of file parts; multer accepts any name, any number of times
FieldNames == {"image", "bg1", "bg2", "bg7"}

\* /^bg[1-6]$/i
IsBgSlot(name) == name \in {"bg1", "bg2", "bg3", "bg4", "bg5", "bg6"}

\* fieldname.startsWith("bg")
StartsWithBg(name) == IsBgSlot(name) \/ name = "bg7"

\* Number(String(fieldname).slice(2)) || 0
SlotOf(name) ==
    CASE name = "bg1" -> 1 [] name = "bg2" -> 2 [] name = "bg3" -> 3
      [] name = "bg4" -> 4 [] name = "bg5" -> 5 [] name = "bg6" -> 6
      [] name = "bg7" -> 7 [] OTHER -> 0

\* Array.prototype.filter: the positions of files whose field name is one
\* of names, in arrival order
Filter(files, names) ==
    LET RECURSIVE from(_)
        from(i) == IF i > Len(files) THEN <<>>
                   ELSE (IF files[i] \in names THEN <<i>> ELSE <<>>) \o from(i + 1)
    IN  from(1)

\* Array.prototype.sort with the comparator ai - bi: a stable sort by slot
RECURSIVE SortBySlot(_, _)
SortBySlot(files, idx) ==
    IF idx = <<>> THEN <<>>
    ELSE LET rest == SortBySlot(files, SubSeq(idx, 1, Len(idx) - 1))
             last == idx[Len(idx)]
             before == SelectSeq(rest, LAMBDA k : SlotOf(files[k]) <= SlotOf(files[last]))
             after == SelectSeq(rest, LAMBDA k : SlotOf(files[k]) > SlotOf(files[last]))
         IN  before \o <<last>> \o after

\* part_002:323-340, server.js:162-170
pickBgFiles(files) ==
    LET bgs == SortBySlot(files, Filter(files, {name \in FieldNames : IsBgSlot(name)}))
        single == Filter(files, {"image"})
    IN  IF bgs # <<>> THEN bgs
        ELSE IF single # <<>> THEN <<single[1]>> ELSE <<>>

\* the first n elements of a sequence
Take(seq, n) == SubSeq(seq, 1, Min(n, Len(seq)))

\* one more file part of the multipart request has arrived
UploadPart ==
    /\ variant # "legacy"
    /\ upload.phase = "receiving"
    /\ Len(upload.files) < MaxParts
    /\ \E name \in FieldNames :
         upload' = [upload EXCEPT !.files = Append(@, name)]
    /\ UNCHANGED <<zoom, speech, video, render, variant, now, nextId, jobs, dirs, procs, resp, sweep>>

\* the handler chooses the background images and writes them in the order
\* imagesPlusAudioToMp4 composes them (part_002:620,644-651 and 388;
\* server.js:312,320-325 and 190; part_000:218-226 and 117)
PickBg ==
    /\ variant # "legacy"
    /\ upload.phase = "receiving"
    /\ upload' =
         [upload EXCEPT
            !.phase = "picked",
            !.bgPaths =
               CASE variant = "full" -> Take(pickBgFiles(upload.files), MaxImages)
                 [] variant = "gcp" -> pickBgFiles(upload.files)
                 [] OTHER -> Filter(upload.files,
                               {name \in FieldNames :
                                  StartsWithBg(name) \/ name = "image"})]
    /\ UNCHANGED <<zoom, speech, video, render, variant, now, nextId, jobs, dirs, procs, resp, sweep>>

(* --------------------------- speech synthesis -------------------------- *)

\* the longest text handed to a synthesizer, in characters
MaxText == 4

\* a text is the sequence of its characters
Alphabet == {"a", "b", " ", "\n"}

Texts == UNION {[1..n -> Alphabet] : n \in 0..MaxText}

\* the limits chunkText is called with (4500 in server.js:567, scaled down)
ChunkLens == {2, 3}

IsSpace(c) == c \in {" ", "\n"}

RECURSIVE trimStart(_)
trimStart(s) ==
    IF s # <<>> /\ IsSpace(Head(s)) THEN trimStart(Tail(s)) ELSE s

RECURSIVE trimEnd(_)
trimEnd(s) ==
    IF s # <<>> /\ IsSpace(s[Len(s)]) THEN trimEnd(SubSeq(s, 1, Len(s) - 1)) ELSE s

\* String.prototype.trim
trim(s) == trimEnd(trimStart(s))

\* s.split(/\n+/g): rest is what is left to read, cur the part being read,
\* out the parts read so far
RECURSIVE split(_, _, _)
split(rest, cur, out) ==
    IF rest = <<>> THEN Append(out, cur)
    ELSE IF Head(rest) = "\n"
    THEN LET RECURSIVE skip(_)
             skip(r) == IF r # <<>> /\ Head(r) = "\n" THEN skip(Tail(r)) ELSE r
         IN  split(skip(rest), <<>>, Append(out, cur))
    ELSE split(Tail(rest), Append(cur, Head(rest)), out)

\* the loop of chunkText over the parts of the text (server.js:550-558)
RECURSIVE pack(_, _, _, _)
pack(parts, cur, chunks, maxLen) ==
    IF parts = <<>>
    THEN IF trim(cur) # <<>> THEN Append(chunks, trim(cur)) ELSE chunks
    ELSE LET part == Head(parts) IN
         IF Len(trim(cur \o <<"\n">> \o part)) > maxLen
         THEN pack(Tail(parts), part,
                   IF trim(cur) # <<>> THEN Append(chunks, trim(cur)) ELSE chunks,
                   maxLen)
         ELSE pack(Tail(parts),
                   (IF cur # <<>> THEN cur \o <<"\n">> ELSE <<>>) \o part,
                   chunks, maxLen)

\* server.js:543-560
chunkText(text, maxLen) ==
    LET s == trim(text) IN
    IF s = <<>> THEN <<>>
    ELSE IF Len(s) <= maxLen THEN <<s>>
    ELSE pack(split(s, <<>>, <<>>), <<>>, <<>>, maxLen)

\* the synthesizers: googleTtsToWav (server.js:562), turkishTtsToMp3
\* (server.js:1015), ttsTrToWav (part_002:239, server.js:122, part_000:93)
Synthesizers == {"chunked", "espeak", "plain"}

\* a synthesizer is called with a text and runs to its first request: the
\* inputs it is going to send, or the exception it raises before sending any
SpeakStart ==
    /\ speech.phase = "idle"
    /\ \E kind \in Synthesizers, text \in Texts, maxLen \in ChunkLens :
         \* addTtsClip of server.js:764-785 is reached with truthy texts only
         /\ kind = "chunked" => text # <<>>
         /\ \E parts \in {CASE kind = "chunked" -> chunkText(text, maxLen)
                            [] kind = "espeak" ->
                                 IF trim(text) # <<>> THEN <<text>> ELSE << <<" ">> >>
                            [] OTHER -> <<text>>} :
              speech' = [phase |-> IF parts = <<>> THEN "failed" ELSE "parts",
                         kind |-> kind, text |-> text, maxLen |-> maxLen,
                         parts |-> parts, partWavs |-> <<>>, audio |-> <<>>,
                         exc |-> IF parts = <<>> THEN "TTS text empty" ELSE ""]
    /\ UNCHANGED <<zoom, upload, video, render, variant, now, nextId, jobs, dirs, procs, resp, sweep>>

\* the request for the next input is answered: its audio is kept as the next
\* part file, or the answer has no audio and the synthesizer raises
SpeakPart ==
    /\ speech.phase = "parts"
    /\ Len(speech.partWavs) < Len(speech.parts)
    /\ \E ok \in BOOLEAN :
         speech' = IF ok
                   THEN [speech EXCEPT !.partWavs =
                           Append(@, speech.parts[Len(speech.partWavs) + 1])]
                   ELSE [speech EXCEPT !.phase = "failed",
                                       !.exc = "Google TTS returned empty audioContent"]
    /\ UNCHANGED <<zoom, upload, video, render, variant, now, nextId, jobs, dirs, procs, resp, sweep>>

\* every input was synthesized: the part files are joined in the order of
\* the list and written to the clip
SpeakEnd ==
    /\ speech.phase = "parts"
    /\ Len(speech.partWavs) = Len(speech.parts)
    /\ speech' = [speech EXCEPT !.phase = "done", !.audio = speech.partWavs]
    /\ UNCHANGED <<zoom, upload, video, render, variant, now, nextId, jobs, dirs, procs, resp, sweep>>

(* ---------------------------- time and sweep --------------------------- *)

Tick ==
    /\ now < Epoch + MaxTicks * TickMs
    /\ \A id \in DOMAIN procs : procs[id].state # "scheduled"
    /\ now' = now + TickMs
    /\ resp' = NoResp
    /\ UNCHANGED <<zoom, upload, speech, video, render, variant, nextId, jobs, dirs, procs, sweep>>

\* part_002:47, server.js:32, part_000:33: the entries the sweep does not skip
Expired(j, t) == j.createdAt # 0 /\ ~(t - j.createdAt < JOB_TTL_MS)

\* the next entry, in insertion order after `after`, that the sweep removes
NextExpired(js, after, t) ==
    LET S == {i \in DOMAIN js : i > after /\ Expired(js[i], t)} IN
    IF S = {} THEN 0 ELSE CHOOSE i \in S : \A k \in S : i <= k

\* the setInterval callback reads the clock, walks the registry and reaches
\* its first await: fsp.rm of the first expired job's directory
SweepStart ==
    /\ variant # "legacy"
    /\ sweep = SweepIdle
    /\ LET id == NextExpired(jobs, 0, now) IN
         /\ id # 0
         /\ dirs' = dirs \ {jobs[id].dir}
         /\ sweep' = [now |-> now, id |-> id]
    /\ resp' = NoResp
    /\ UNCHANGED <<zoom, upload, speech, video, render, variant, now, nextId, jobs, procs>>

\* fsp.rm returned: jobs.delete, then on to the next expired entry
SweepDelete ==
    /\ sweep.id # 0
    /\ LET js == Without(jobs, sweep.id)
           nxt == NextExpired(js, sweep.id, sweep.now) IN
         /\ jobs' = js
         /\ IF nxt = 0
            THEN /\ sweep' = SweepIdle
                 /\ dirs' = dirs
            ELSE /\ sweep' = [now |-> sweep.now, id |-> nxt]
                 /\ dirs' = dirs \ {js[nxt].dir}
    /\ resp' = NoResp
    /\ UNCHANGED <<zoom, upload, speech, video, render, variant, now, nextId, procs>>

(* ---------------------------- specifications --------------------------- *)

\* the job lifecycle: several jobs, the clock, the sweep, the queries
Next ==
    \/ StartFull(LifePlans(variant), MaxJobs)
    \/ StartGcp(LifePlans(variant), MaxJobs)
    \/ StartBasic(LifePlans(variant), MaxJobs)
    \/ StartLegacy(LifePlans(variant), MaxJobs)
    \/ BeginJob
    \/ StepDone
    \/ Status(MaxJobs)
    \/ Result(MaxJobs)
    \/ Tick
    \/ SweepStart
    \/ SweepDelete

Spec == Init /\ [][Next]_vars

\* one job with any plan, from its submission to the end of its pipeline
NextPipe ==
    \/ StartFull(AllPlans, 1)
    \/ StartGcp(AllPlans, 1)
    \/ StartBasic(AllPlans, 1)
    \/ StartLegacy(AllPlans, 1)
    \/ BeginJob
    \/ StepDone

SpecPipe == Init /\ [][NextPipe]_vars

\* one job under the clock, the sweep and the status query.  The event loop
\* runs every setImmediate callback, and every awaited external call ends.
NextLive ==
    \/ StartFull(LifePlans(variant), 1)
    \/ StartGcp(LifePlans(variant), 1)
    \/ StartBasic(LifePlans(variant), 1)
    \/ StartLegacy(LifePlans(variant), 1)
    \/ BeginJob
    \/ StepDone
    \/ Status(1)
    \/ Tick
    \/ SweepStart
    \/ SweepDelete

SpecLive ==
    /\ Init
    /\ [][NextLive]_vars
    /\ \A id \in 1..MaxJobs : WF_vars(Begin(id)) /\ WF_vars(Advance(id))

\* one job with the queries; the event loop runs every callback of the
\* pipeline and every callback of the sweep timer
NextReclaim ==
    \/ StartFull(LifePlans(variant), 1)
    \/ StartGcp(LifePlans(variant), 1)
    \/ StartBasic(LifePlans(variant), 1)
    \/ StartLegacy(LifePlans(variant), 1)
    \/ BeginJob
    \/ StepDone
    \/ Status(1)
    \/ Result(1)
    \/ Tick
    \/ SweepStart
    \/ SweepDelete

SpecReclaim ==
    /\ Init
    /\ [][NextReclaim]_vars
    /\ \A id \in 1..MaxJobs : WF_vars(Begin(id)) /\ WF_vars(Advance(id))
    /\ WF_vars(SweepStart) /\ WF_vars(SweepDelete)

\* one pipeline over the plans whose orderKey is any text
NextFiles ==
    \/ StartFull(FilePlans, 1)
    \/ StartGcp(FilePlans, 1)
    \/ StartBasic(FilePlans, 1)
    \/ StartLegacy(FilePlans, 1)
    \/ BeginJob
    \/ StepDone

SpecFiles == Init /\ [][NextFiles]_vars

\* the single-shot renders of the one-job revision
NextRender ==
    \/ RenderStart(MaxShots)
    \/ \E r \in 1..MaxShots : RenderEncoded(r)
    \/ \E r \in 1..MaxShots : RenderSent(r)

SpecRender == Init /\ [][NextRender]_vars

\* one pipeline whose backends may answer 429
NextRetry ==
    \/ StartFull(LifePlans(variant) \cup {OneSegment}, 1)
    \/ StartGcp(LifePlans(variant) \cup {OneSegment}, 1)
    \/ StartBasic(LifePlans(variant) \cup {OneSegment}, 1)
    \/ StartLegacy(LifePlans(variant) \cup {OneSegment}, 1)
    \/ BeginJob
    \/ StepDoneLimited

SpecRetry == Init /\ [][NextRetry]_vars

\* one job at a time, against a synthesis backend that may reject the credentials
NextAuth ==
    \/ StartFull(LifePlans(variant) \cup {OneSegment}, 1)
    \/ StartGcp(LifePlans(variant) \cup {OneSegment}, 1)
    \/ StartBasic(LifePlans(variant) \cup {OneSegment}, 1)
    \/ StartLegacy(LifePlans(variant) \cup {OneSegment}, 1)
    \/ BeginJob
    \/ StepDoneDenied

SpecAuth == Init /\ [][NextAuth]_vars

\* the frames of one zoompan filter
NextZoom ==
    \/ ZoomSetup
    \/ ZoomFrame

SpecZoom == Init /\ [][NextZoom]_vars

\* the file parts of one submission and the choice of its images
NextUpload ==
    \/ UploadPart
    \/ PickBg

SpecUpload == Init /\ [][NextUpload]_vars

\* one call of a speech synthesizer
NextSpeech ==
    \/ SpeakStart
    \/ SpeakPart
    \/ SpeakEnd

SpecSpeech == Init /\ [][NextSpeech]_vars

\* one call of imagesPlusAudioToMp4
NextCompose ==
    \/ ComposeProbe
    \/ ComposeEncode

SpecCompose == Init /\ [][NextCompose]_vars

(* ------------------------------- claims -------------------------------- *)

(* C1: every job of the registry that has left the processing status (by   *)
(* completion, failure, failed creation or lazy timeout) has exactly one   *)
(* of outputPath and error set, never both and never neither.              *)
C1_Exclusive ==
    \A id \in DOMAIN jobs :
      jobs[id].status # "processing" =>
        (jobs[id].outputPath # NoPath) # (jobs[id].error # NoError)

\* one job finished and another failed
C1_Witness ==
    \E i, k \in DOMAIN jobs :
      /\ jobs[i].status = "done" /\ jobs[i].outputPath # NoPath
      /\ jobs[k].status = "error" /\ jobs[k].error # NoError

(* C2: the only status transitions are processing -> done and              *)
(* processing -> error: a status of done or error never changes again.     *)
C2_TerminalStatusKept ==
    [][\A id \in DOMAIN jobs \cap DOMAIN jobs' :
         jobs[id].status \in {"done", "error"} =>
           jobs'[id].status = jobs[id].status]_vars

(* C3: once a step of a job's pipeline has raised, the pipeline has         *)
(* returned and never runs again, and the job (while the registry holds    *)
(* it) has status error with the exception's message as its error.         *)
C3_RaiseStopsJob ==
    [][\A id \in DOMAIN procs' :
         procs'[id].exc # "" =>
           /\ procs'[id].state = "returned"
           /\ id \in DOMAIN jobs' =>
                /\ jobs'[id].status = "error"
                /\ jobs'[id].error = procs'[id].exc
           /\ (id \in DOMAIN procs /\ procs[id].exc # "") =>
                procs'[id] = procs[id]]_vars

\* the ffmpeg run of a late step raised, after the manifest was written
C3_Witness ==
    \E id \in DOMAIN procs :
      /\ procs[id].exc = "ffmpeg failed (code=1)"
      /\ procs[id].listed
      /\ jobs[id].status = "error"
      /\ jobs[id].error = "ffmpeg failed (code=1)"


(* C4: within one job the steps run one at a time in the order clip        *)
(* assembly, concatenate, trim, encode audio, render video, verify, each   *)
(* at most once; the stage label a poller reads while a step runs is that  *)
(* step's label, and the label never goes back to that of an earlier step  *)
(* (seg_i_ar before seg_i_tr before seg_(i+1)_ar).                         *)

\* the place of a stage label in the order the claim gives
StageRank(stage) ==
    CASE stage[1] \in {"none", "queued", "start"} -> 0
      [] stage[1] \in {"prepare", "audio_prep"} -> 1
      [] stage[1] = "tts_intro" -> 2
      [] stage[1] = "tts_announce" -> 3
      [] stage[1] = "bismillah" -> 4
      [] stage[1] = "seg_ar" -> 3 + 2 * stage[2]
      [] stage[1] \in {"seg_tr", "segment"} -> 4 + 2 * stage[2]
      [] stage[1] = "tts_outro" -> 5 + 2 * (MaxSegs + 1)
      [] stage[1] \in {"concat", "concat_audio"} -> 6 + 2 * (MaxSegs + 1)
      [] stage[1] \in {"trim", "trim_silence"} -> 7 + 2 * (MaxSegs + 1)
      [] stage[1] = "encode_audio" -> 8 + 2 * (MaxSegs + 1)
      [] stage[1] \in {"render_mp4", "rendering"} -> 9 + 2 * (MaxSegs + 1)
      [] stage[1] = "verify" -> 10 + 2 * (MaxSegs + 1)
      [] stage[1] \in {"done", "completed", "error"} -> 11 + 2 * (MaxSegs + 1)

\* the place of a step in the order the claim gives
KindRank(kind) ==
    CASE kind \in {"writeList", "writeListSync", "concat"} -> 2
      [] kind = "trim" -> 3
      [] kind = "encode" -> 4
      [] kind = "render" -> 5
      [] kind = "verify" -> 6
      [] OTHER -> 1

C4_StepsInOrder ==
    [][\A id \in DOMAIN procs' :
         LET q == procs'[id]
             steps == Steps(variant, q.plan) IN
         /\ (q.state = "running" /\ id \in DOMAIN jobs' /\ variant # "legacy") =>
               jobs'[id].stage = steps[q.pc].label
         /\ (id \in DOMAIN jobs /\ id \in DOMAIN jobs') =>
               StageRank(jobs'[id].stage) >= StageRank(jobs[id].stage)
         /\ (id \in DOMAIN procs /\ procs[id].state = "running"
                /\ q.state = "running" /\ q # procs[id]) =>
               /\ q.pc > procs[id].pc
               /\ KindRank(steps[q.pc].kind) >= KindRank(steps[procs[id].pc].kind)]_vars

\* the verify step of a job of two segments is running
C4_Witness ==
    \E id \in DOMAIN procs :
      /\ procs[id].state = "running"
      /\ Len(procs[id].plan.segments) = 2
      /\ Len(procs[id].list) >= 4
      /\ jobs[id].stage = <<"verify", 0>>

(* C5: for every plan the concatenation manifest lists intro (if present), *)
(* announcement (if present), fixed clip (if enabled), then for each        *)
(* segment in plan order its external-audio clip immediately followed by    *)
(* its spoken-text clip, then outro (if present).                           *)

\* what a clip of the manifest is, whatever the revision calls its file
ClipRole(clip) ==
    CASE clip[1] \in {"intro", "TR_INTRO"} -> <<"intro", 0>>
      [] clip[1] \in {"announce", "TR_SURE"} -> <<"announcement", 0>>
      [] clip[1] \in {"bismillah_ar", "bismillah", "AR_BISM"} -> <<"fixed", 0>>
      [] clip[1] \in {"ayah_ar", "ar", "AR"} -> <<"external", clip[2]>>
      [] clip[1] \in {"ayah_tr", "tr", "TR"} -> <<"spoken", clip[2]>>
      [] clip[1] \in {"outro", "TR_OUTRO"} -> <<"outro", 0>>

Roles(list) == [k \in 1..Len(list) |-> ClipRole(list[k])]

\* the segments that have a clip in the manifest
Included(list) ==
    {Roles(list)[k][2] : k \in {n \in 1..Len(list) :
                                  Roles(list)[n][1] \in {"external", "spoken"}}}

RECURSIVE ClaimedSegments(_, _, _)
ClaimedSegments(n, i, inc) ==
    IF i > n THEN <<>>
    ELSE Opt(i \in inc, << <<"external", i>>, <<"spoken", i>> >>)
         \o ClaimedSegments(n, i + 1, inc)

\* the manifest the claim describes for a plan and a set of segments
ClaimedManifest(plan, inc) ==
    Opt(plan.introText, << <<"intro", 0>> >>)
    \o Opt(plan.surahAnnouncementText, << <<"announcement", 0>> >>)
    \o Opt(plan.bismillah, << <<"fixed", 0>> >>)
    \o ClaimedSegments(Len(plan.segments), 1, inc)
    \o Opt(plan.outroText, << <<"outro", 0>> >>)

C5_ManifestOrder ==
    \A id \in DOMAIN procs :
      procs[id].listed =>
        Roles(procs[id].list)
          = ClaimedManifest(procs[id].plan, Included(procs[id].list))

(* C6: a segment that lacks its external-audio URL contributes no clip and  *)
(* does not make the job fail; every segment that has its external-audio    *)
(* URL contributes both its halves.                                         *)
C6_SegmentsByUrl ==
    \A id \in DOMAIN procs :
      LET p == procs[id] IN
      /\ p.exc # "Failed to parse URL"
      /\ p.listed =>
           \A i \in 1..Len(p.plan.segments) :
             LET has(half) == \E k \in 1..Len(p.list) :
                                Roles(p.list)[k] = <<half, i>> IN
             /\ has("external") <=> p.plan.segments[i].arabicAudioUrl
             /\ has("spoken") <=> p.plan.segments[i].arabicAudioUrl

(* C7: every accepted job eventually leaves the processing status, by       *)
(* reaching done or error, when every external step eventually returns;    *)
(* and no request of a client stops or alters a pipeline.                   *)

\* a request handler leaves every pipeline as it was
C7_NoAbort ==
    [][resp'.op # "none" =>
         \A id \in DOMAIN procs : id \in DOMAIN procs' /\ procs'[id] = procs[id]]_vars

C7_EveryJobEnds ==
    /\ \A id \in 1..MaxJobs :
         (id \in DOMAIN jobs /\ jobs[id].status = "processing")
           ~> (id \in DOMAIN jobs /\ jobs[id].status \in {"done", "error"})
    /\ C7_NoAbort

(* C7, amended: every accepted job eventually reaches done or error, or its *)
(* registry entry is removed by the TTL sweep while it is still processing; *)
(* and no request of a client stops or alters a pipeline.                   *)
C7_EveryJobEndsOrExpires ==
    /\ \A id \in 1..MaxJobs :
         (id \in DOMAIN jobs /\ jobs[id].status = "processing")
           ~> (id \notin DOMAIN jobs \/ jobs[id].status \in {"done", "error"})
    /\ C7_NoAbort

\* an accepted job whose pipeline ran to its end
C7_Witness ==
    \E id \in DOMAIN jobs :
      /\ id \in DOMAIN procs
      /\ procs[id].state = "returned"
      /\ procs[id].listed
      /\ jobs[id].status = "done"

(* C8: when the submission handler sends the acknowledgment carrying the   *)
(* job id, the registry holds that id with status processing, and the      *)
(* pipeline of that job has not finished.                                   *)
C8_AckWhileProcessing ==
    (resp.op = "start" /\ resp.code = 200) =>
      /\ resp.id \in DOMAIN jobs
      /\ jobs[resp.id].status = "processing"
      /\ procs[resp.id].state # "returned"

(* C9: a submission that lacks a background image, lacks the plan field or  *)
(* carries an unparseable plan is answered with an error, and no pipeline   *)
(* is ever started for a submission without an image.                       *)
C9_InvalidRejected ==
    /\ (resp.op = "start" /\ (~resp.image \/ resp.field # "json")) =>
          (resp.code >= 400 /\ resp.id = 0)
    /\ \A id \in DOMAIN procs : procs[id].bgCount > 0

(* C10: while a job's pipeline is running, a valid new submission is still  *)
(* accepted and its job starts processing, and status and result queries   *)
(* for every job are still answered.                                        *)

\* the pipeline of some job is between its start and its end
C10_PipelineRunning == \E id \in DOMAIN procs : procs[id].state = "running"

\* a submission with image and parseable plan is acknowledged with the id of
\* a job in status processing
C10_Accepted ==
    /\ Next
    /\ resp'.op = "start" /\ resp'.image /\ resp'.field = "json"
    /\ resp'.code = 200
    /\ resp'.id \in DOMAIN jobs' /\ jobs'[resp'.id].status = "processing"

\* the status and the result query for job id are answered
C10_Answered(id) ==
    /\ ENABLED (Status(MaxJobs) /\ resp'.id = id /\ resp'.code = 200)
    /\ ENABLED (Result(MaxJobs) /\ resp'.id = id /\ resp'.code # 0)

C10_NeverBlocked ==
    C10_PipelineRunning =>
      /\ nextId <= MaxJobs => ENABLED C10_Accepted
      /\ \A id \in DOMAIN jobs : C10_Answered(id)

(* C10, amended: while a job's pipeline is running, status and result       *)
(* queries for every job are still answered, and a valid new submission is *)
(* still accepted and its job starts processing, except in the revision    *)
(* that admits one job at a time, which refuses every submission exactly   *)
(* while some registry entry has status processing.                         *)
C10_BlockedOnlyByGate ==
    C10_PipelineRunning =>
      /\ nextId <= MaxJobs =>
           LET gated == /\ variant = "legacy"
                        /\ \E id \in DOMAIN jobs : jobs[id].status = "processing"
           IN  (ENABLED C10_Accepted) <=> ~gated
      /\ \A id \in DOMAIN jobs : C10_Answered(id)

\* a second job was just accepted while the pipeline of the first is running
C10_Witness ==
    /\ resp.op = "start" /\ resp.code = 200
    /\ jobs[resp.id].status = "processing"
    /\ \E id \in DOMAIN procs : id # resp.id /\ procs[id].state = "running"
    /\ \A id \in DOMAIN jobs : C10_Answered(id)

(* C11: every job of the registry whose age has reached the TTL is removed *)
(* from the registry together with its working directory, whatever its     *)
(* status, and a sweep that completes leaves no job behind that was        *)
(* expired when it started.                                                 *)
C11_ExpiredReclaimed ==
    /\ \A id \in 1..MaxJobs :
         (id \in DOMAIN jobs /\ Expired(jobs[id], now))
           ~> (id \notin DOMAIN jobs /\ id \notin dirs)
    /\ [][(sweep.id # 0 /\ sweep'.id = 0) =>
            \A id \in DOMAIN jobs' :
              ~Expired(jobs'[id], sweep.now)]_vars

(* C12: the record and the working directory of a job are removed only by *)
(* the TTL sweep or by a result transfer that was sent to the caller in    *)
(* full; a transfer that fails or is aborted leaves both in place.         *)
C12_RemovedOnlyBySweepOrDelivery ==
    [][\A id \in DOMAIN jobs :
         (\/ id \notin DOMAIN jobs'
          \/ jobs[id].dir \in dirs /\ jobs[id].dir \notin dirs')
         => \/ sweep'.id = id /\ Expired(jobs[id], sweep'.now)
            \/ sweep.id = id /\ Expired(jobs[id], sweep.now)
            \/ resp'.op = "result" /\ resp'.id = id /\ resp'.code = 200]_vars

(* C13: a status query for an id that is not in the registry answers       *)
(* not-found, and a status or result query that answers not-found or        *)
(* not-ready changes no job record and no directory.                        *)
C13_QueriesLeaveRegistry ==
    [][resp'.op \in {"status", "result"} =>
         /\ (resp'.op = "status" /\ resp'.id \notin DOMAIN jobs) => resp'.code = 404
         /\ resp'.code \in {404, 409, 425} => jobs' = jobs /\ dirs' = dirs]_vars

\* a status query for an unknown id was answered while another job is registered
C13_Witness ==
    /\ resp.op = "status" /\ resp.code = 404
    /\ resp.id \notin DOMAIN jobs /\ DOMAIN jobs # {}

\* the answers (code, error) that say "not ready" in the four revisions
C14_NotReady == {<<409, "job_not_done">>, <<404, "not_ready">>, <<425, "not ready">>}

(* C14: the result query answers by the state of the job: a done job whose *)
(* file exists gets the video; a processing job gets a not-ready answer,   *)
(* which is neither the success answer nor the answer a failed job gets; a *)
(* job in error gets an answer that carries its recorded error message.    *)
C14_ResultByState ==
    [][(resp'.op = "result" /\ resp'.id \in DOMAIN jobs) =>
         LET j == jobs[resp'.id]
             answer == <<resp'.code, resp'.error>>
         IN
         /\ (j.status = "done" /\ j.outputPath \in dirs) => resp'.code \in {200, 499}
         /\ j.status = "processing" => answer \in C14_NotReady
         /\ j.status = "error" => answer \notin C14_NotReady /\ resp'.error = j.error]_vars

C16_ExpandedPlan(plan) ==
    (IF plan.introText THEN {<<"intro", 0>>} ELSE {})
    \cup (IF plan.surahAnnouncementText THEN {<<"announcement", 0>>} ELSE {})
    \cup (IF plan.bismillah THEN {<<"fixed", 0>>} ELSE {})
    \cup (IF plan.outroText THEN {<<"outro", 0>>} ELSE {})
    \cup UNION {{<<"external", i>>, <<"spoken", i>>} :
                 i \in {k \in 1..Len(plan.segments) :
                           /\ plan.segments[k].arabicAudioUrl
                           /\ plan.segments[k].trText}}

(* C16: a job reaches done only if every clip of its expanded plan was     *)
(* produced and listed in the manifest, and a job whose pipeline raised an *)
(* exception on a clip is never done.                                      *)
C16_DoneHasEveryClip ==
    \A id \in DOMAIN jobs \cap DOMAIN procs :
      jobs[id].status = "done" =>
        LET p == procs[id] IN
        /\ p.exc = NoError
        /\ p.listed
        /\ \A c \in C16_ExpandedPlan(p.plan) :
             \E k \in 1..Len(p.list) : Roles(p.list)[k] = c

(* C17: every file the pipeline of a job writes lies inside the working   *)
(* directory of that job, and in no other job's directory, whatever text   *)
(* the orderKey (ayah) of a segment holds.                                 *)
C17_FilesInOwnDirectory ==
    \A id \in DOMAIN procs :
      LET p == procs[id]
          steps == Steps(variant, p.plan) IN
      p.state = "running" =>
        \A k \in 1..p.pc :
          \A f \in StepFiles(variant, id, p.plan, steps, k) :
            /\ Inside(f, JobDir(variant, id))
            /\ \A other \in (1..MaxJobs) \ {id} : ~Inside(f, JobDir(variant, other))

\* the requests whose encoder or download is at work
C18_Active(shots) == {r \in DOMAIN shots : shots[r].state \in {"encoding", "sending"}}

(* C18: two single-shot render requests that are processed at the same     *)
(* time never write to or serve from the same output file: every response  *)
(* carries the video encoded from the request's own image and audio, and   *)
(* the cleanup of a request never deletes a file that another request is   *)
(* still producing or sending.                                             *)
C18_OwnOutputFile ==
    /\ [](\A r \in DOMAIN render.shots :
            render.shots[r].state = "sent" => render.shots[r].got = {r})
    /\ [](\A r, q \in C18_Active(render.shots) :
            r # q => render.shots[r].output # render.shots[q].output)
    /\ [][\A f \in DOMAIN render.files :
            f \notin DOMAIN render.files' =>
              \A q \in C18_Active(render.shots') : render.shots'[q].output # f]_vars

(* C19: when a synthesis or fetch backend answers 429 to the first three   *)
(* requests for a clip and 200 to the fourth, the call for that clip does  *)
(* not fail and the job is not ended in error by it.                       *)
C19_RateLimitRetried ==
    \A id \in DOMAIN procs :
      procs[id].replies = <<429, 429, 429, 200>> =>
        /\ procs[id].exc = NoError
        /\ id \in DOMAIN jobs => jobs[id].status # "error"

\* the exceptions of a synthesis or media step that did not succeed
C20_StepFailures ==
    (UNION {Raises(k) : k \in {"tts", "fetch", "mkdir", "verify", "concat"}}
     \cup {Call(variant, [kind |-> "download"], rs, FALSE).exc : rs \in PlainReplies}
     \cup {"Video duration too short", "ENOENT: no such file or directory"})
    \ {NoError}

(* C20: a job submitted with one background image and a plan that has an   *)
(* introText and an empty segments list, none of whose synthesis and media *)
(* steps fails, ends in done with a manifest that holds the intro clip and *)
(* nothing else.                                                           *)
C20_IntroOnlyDone ==
    \A id \in DOMAIN procs :
      LET p == procs[id] IN
      (/\ p.plan = IntroOnly /\ p.bgCount = 1
       /\ p.state = "returned" /\ p.exc \notin C20_StepFailures)
      => /\ id \in DOMAIN jobs /\ jobs[id].status = "done"
         /\ Roles(p.list) = << <<"intro", 0>> >>

(* C21: in every reachable state the outputPath of a job is set only if   *)
(* its status is done and its error is set only if its status is error; a  *)
(* job in processing has neither.                                          *)
C21_FieldsFollowStatus ==
    \A id \in DOMAIN jobs :
      /\ jobs[id].outputPath # NoPath => jobs[id].status = "done"
      /\ jobs[id].error # NoError => jobs[id].status = "error"

\* a job the status query timed out (error, no output) next to a job that is
\* in processing
C21_Witness ==
    \E i, k \in DOMAIN jobs :
      /\ jobs[i].status = "processing"
      /\ jobs[k].status = "error" /\ jobs[k].error = "timeout"
      /\ k \in DOMAIN procs /\ procs[k].state = "running"

(* C22: for N background images and a finished audio track of duration   *)
(* total, the image track of the output has exactly N segments and image i *)
(* (counted from 0) is displayed over [i*total/N, (i+1)*total/N).          *)
C22_EvenPartition ==
    video.phase = "encoded" =>
      /\ Len(video.slots) = video.n
      /\ \A i \in 1..video.n :
           /\ video.slots[i][1] * video.n = (i - 1) * video.dur
           /\ video.slots[i][2] * video.n = i * video.dur

(* C23: the output is cut to the shorter of the composed image track and   *)
(* the finished audio track, so it is never longer than the audio track.   *)
C23_CutToAudio ==
    video.phase = "encoded" =>
      /\ video.out <= video.dur
      /\ video.out = Min(video.track, video.dur)

(* C24: an enabled call-to-action overlay is not visible for the whole     *)
(* video: at some time of [0, total] its enable expression is false.       *)
C24_OverlayNotAlways ==
    (video.phase = "encoded" /\ video.cta) =>
      \E t \in 0..video.total : ~CtaEnabled(video.window, t)

\* job j has been in processing for longer than the ceiling at time t
C25_Overdue(j, t) == j.status = "processing" /\ t - j.createdAt > MAX_JOB_MS

(* C25: in the revision with the job ceiling, a status query on a job that *)
(* has been in processing for longer than MAX_JOB_MS moves it to error     *)
(* with error "timeout" and reports it as error; a job gets the error      *)
(* "timeout" only in a status query that reads it while it is overdue,     *)
(* never in another step and never while it is younger than the ceiling.   *)
C25_LazyTimeout ==
    [][variant = "legacy" =>
         \A id \in DOMAIN jobs :
           /\ (resp'.op = "status" /\ resp'.id = id /\ C25_Overdue(jobs[id], now))
              => /\ jobs'[id].status = "error" /\ jobs'[id].error = "timeout"
                 /\ resp'.status = "error"
           /\ (/\ id \in DOMAIN jobs' /\ jobs'[id].error = "timeout"
               /\ jobs[id].error # "timeout")
              => /\ resp'.op = "status" /\ resp'.id = id
                 /\ C25_Overdue(jobs[id], now)]_vars

\* a status query has just timed out a job whose pipeline is still running
C25_Witness ==
    /\ resp.op = "status" /\ resp.status = "error" /\ resp.error = "timeout"
    /\ resp.id \in DOMAIN procs /\ procs[resp.id].state = "running"
    /\ jobs[resp.id].error = "timeout"

\* the pipelines that were started and have not returned
C26_Executing == {id \in DOMAIN procs : procs[id].state \in {"scheduled", "running"}}

(* C26: in the revision that admits one job at a time, at most one pipeline *)
(* is executing at any moment, and a submission is accepted only when no    *)
(* earlier pipeline is still running.                                       *)
C26_OnePipeline ==
    variant = "legacy" =>
      /\ Cardinality(C26_Executing) <= 1
      /\ (resp.op = "start" /\ resp.code = 200) => C26_Executing \subseteq {resp.id}

(* C27: whenever the registry holds a job with status done, the output    *)
(* file of that job exists, and no result query finds a done job whose     *)
(* output file has been removed.                                           *)
C27_DoneHasFile ==
    /\ \A id \in DOMAIN jobs :
         jobs[id].status = "done" => jobs[id].outputPath \in dirs
    /\ ~(resp.op = "result" /\ resp.error = "ENOENT")

(* C28: every working directory that exists is the directory of a job in  *)
(* the registry, so that reclamation can reach it: a submission that fails *)
(* after creating its directory leaves no directory without a record.      *)
C28_NoOrphanDir == \A d \in dirs : \E id \in DOMAIN jobs : jobs[id].dir = d

\* the pipelines whose job the sweep has taken out of the registry
C29_Swept == {id \in DOMAIN procs : variant # "legacy" /\ id \notin DOMAIN jobs}

(* C29: once the sweep has removed a job whose pipeline had not returned,  *)
(* no later step of that pipeline (a stage update, its completion, its     *)
(* failure) puts the job back into the registry, the pipeline comes to its *)
(* end by returning, and every later query for the job answers not found.  *)
C29_SweptStaysGone ==
    [][\A id \in C29_Swept :
         /\ id \notin DOMAIN jobs'
         /\ procs'[id].state \in {"running", "returned"}
         /\ (procs[id].state = "returned" => procs'[id] = procs[id])
         /\ (resp'.op \in {"status", "result"} /\ resp'.id = id) => resp'.code = 404]_vars

\* a swept job whose pipeline afterwards ran to its last statement, and a
\* query for it
C29_Witness ==
    \E id \in C29_Swept :
        /\ procs[id].state = "returned"
        /\ procs[id].exc = "Cannot set properties of undefined"
        /\ resp.op = "status" /\ resp.id = id /\ resp.code = 404

\* the pipeline of id is waiting for a remote audio file
C30_Fetching(id) ==
    /\ procs[id].state = "running"
    /\ Steps(variant, procs[id].plan)[procs[id].pc].kind \in {"download", "fetch"}

(* C30: when the fetch of a remote audio file is answered with a status    *)
(* that is neither success nor rate limiting, the pipeline stops after     *)
(* that one request, without listing the clip, and the job ends in error   *)
(* with the status code in the recorded error.                             *)
C30_FetchFailureIsFatal ==
    [][\A id \in DOMAIN procs :
         (/\ C30_Fetching(id)
          /\ procs'[id] # procs[id]
          /\ procs'[id].replies # <<>>
          /\ procs'[id].replies[1] \notin {200, 429})
         => /\ Len(procs'[id].replies) = 1
            /\ procs'[id].state = "returned"
            /\ procs'[id].exc = "Download failed " \o ToString(procs'[id].replies[1])
            /\ procs'[id].list = procs[id].list
            /\ jobs'[id].status = "error"
            /\ jobs'[id].error = procs'[id].exc]_vars

\* the pipeline of id is waiting for a speech synthesis over the network
C31_Synthesizing(id) ==
    /\ procs[id].state = "running"
    /\ Steps(variant, procs[id].plan)[procs[id].pc].kind = "tts"
    /\ Http(variant, "tts")

(* C31: a synthesis request that is rejected for its credentials ends the  *)
(* pipeline at once: the job is in error, and the clip is not obtained     *)
(* from a retry or from another backend.                                   *)
C31_AuthErrorIsFatal ==
    [][\A id \in DOMAIN procs :
         (/\ C31_Synthesizing(id)
          /\ procs'[id] # procs[id]
          /\ procs'[id].replies # <<>>
          /\ procs'[id].replies[1] = 401)
         => /\ procs'[id].state = "returned"
            /\ procs'[id].exc # ""
            /\ procs'[id].wavs = <<>>
            /\ jobs'[id].status = "error"]_vars

\* a text with nothing to say: empty, or white space only
C32_Blank(text) == trim(text) = <<>>

(* C32: a synthesizer called with an empty or whitespace-only text does    *)
(* not raise for it: it sends a non-empty placeholder to its backend.      *)
C32_BlankTextSynthesized ==
    (speech.phase # "idle" /\ C32_Blank(speech.text))
    => /\ speech.exc # "TTS text empty"
       /\ speech.parts # <<>>
       /\ \A i \in 1..Len(speech.parts) : speech.parts[i] # <<>>

\* the characters of a text that are not white space, in their order
C33_Content(text) == SelectSeq(text, LAMBDA c : ~IsSpace(c))

\* the content of a sequence of chunks, one after the other
RECURSIVE C33_Joined(_)
C33_Joined(chunks) ==
    IF chunks = <<>> THEN <<>>
    ELSE C33_Content(Head(chunks)) \o C33_Joined(Tail(chunks))

(* C33: chunkText splits a non-empty text into chunks of at most maxLen    *)
(* characters that hold the non-space content of the text in its order,    *)
(* and the chunks are synthesized and joined in that order.                *)
C33_ChunksBoundedInOrder ==
    (speech.phase # "idle" /\ speech.kind = "chunked" /\ ~C32_Blank(speech.text))
    => /\ \A i \in 1..Len(speech.parts) : Len(speech.parts[i]) <= speech.maxLen
       /\ C33_Joined(speech.parts) = C33_Content(speech.text)
       /\ speech.partWavs = SubSeq(speech.parts, 1, Len(speech.partWavs))
       /\ speech.phase = "done" => speech.audio = speech.parts

\* the parts of the request that fill slot n, in arrival order
C34_InSlot(n) ==
    Filter(upload.files, {name \in FieldNames : IsBgSlot(name) /\ SlotOf(name) = n})

\* the parts in the slots n, n+1, ..., 6, slot by slot
RECURSIVE C34_FromSlot(_)
C34_FromSlot(n) == IF n > 6 THEN <<>> ELSE C34_InSlot(n) \o C34_FromSlot(n + 1)

(* C34: when the request fills some of the slots bg1..bg6, the images that *)
(* are composed are the images of those slots in the order of the slots,   *)
(* whatever the order of arrival of the parts, and at most 6 of them.      *)
C34_SlotOrder ==
    (upload.phase = "picked" /\ C34_FromSlot(1) # <<>>)
    => /\ Len(upload.bgPaths) <= 6
       /\ upload.bgPaths = Take(C34_FromSlot(1), 6)

\* the steps among the first n of a pipeline that write a clip file
C35_ClipSteps(steps, n) ==
    {k \in 1..n : steps[k].kind \in {"tts", "download", "normalize", "write"}}

\* the step that pushed the j-th entry of the manifest
C35_Pusher(steps, j) ==
    CHOOSE k \in 1..Len(steps) :
        steps[k].push /\ Cardinality({n \in 1..k : steps[n].push}) = j

(* C35: within one job no two clip files carry the same sequence index,    *)
(* the indices grow in assembly order, and the manifest lists its clips in *)
(* strictly increasing index order.                                        *)
C35_IndicesUnique ==
    \A id \in DOMAIN procs :
      LET p == procs[id]
          steps == Steps(variant, p.plan) IN
      /\ p.state = "running" =>
            \A k1, k2 \in C35_ClipSteps(steps, p.pc) :
              \A f1 \in StepFiles(variant, id, p.plan, steps, k1),
                 f2 \in StepFiles(variant, id, p.plan, steps, k2) :
                /\ ClipIndex(variant, steps, k1) # NoIndex
                /\ f1 # f2 => ClipIndex(variant, steps, k1) # ClipIndex(variant, steps, k2)
                /\ k1 < k2 => ClipIndex(variant, steps, k1) <= ClipIndex(variant, steps, k2)
      /\ \A i, j \in 1..Len(p.list) :
            i < j => ClipIndex(variant, steps, C35_Pusher(steps, i))
                     < ClipIndex(variant, steps, C35_Pusher(steps, j))

(* C36: a step that writes a clip file into the clip directory of a job   *)
(* finds the directory made, for every plan, and does not raise for a      *)
(* missing directory.                                                      *)
C36_ClipsDirFirst ==
    [][\A id \in DOMAIN procs :
         (/\ procs[id].state = "running"
          /\ procs'[id] # procs[id]
          /\ Steps(variant, procs[id].plan)[procs[id].pc].kind \in {"write", "normalize"})
         => /\ procs[id].clipsDir
            /\ procs'[id].exc # "ENOENT: no such file or directory"]_vars

(* C37: the zoom factor is the same at frame 0 and at frame period, where *)
(* period is the frame rate times the zoom period in seconds, and lies     *)
(* within [zoomMin, zoomMax] at every frame, for every override.           *)
C37_ZoomPeriodic ==
    zoom.phase = "frame"
    => /\ zoom.zoomMin <= zoom.z /\ zoom.z <= zoom.zoomMax
       /\ zoom.on = zoom.period => zoom.z = ZoomAt(variant, zoom, 0)

(* C38: both pan offsets of the crop window are even, for every canvas     *)
(* size and every zoom value in range.                                     *)
C38_EvenOffsets ==
    zoom.phase = "frame" => zoom.x % 2 = 0 /\ zoom.y % 2 = 0

====
